---- MODULE Spec2Model ----
(***************************************************************************)
(* Verification model of the active probing core of netdia:                *)
(*   - the operation registry          (src-tauri/src/operation.rs)        *)
(*   - the ICMP host-scan engine       (src-tauri/src/probe/scan/icmp.rs)  *)
(*   - the throughput engine           (src-tauri/src/net/speedtest.rs)    *)
(*   - the speedtest commands          (src-tauri/src/command/speedtest.rs)*)
(*   - the ping and traceroute commands (src-tauri/src/command/ping.rs,    *)
(*                                       src-tauri/src/command/trace.rs)   *)
(*   - the neighbor scan               (src-tauri/src/probe/scan/neigh.rs) *)
(*   - the latency measurement         (src-tauri/src/net/latency.rs)      *)
(* Each subsystem has its own next-state relation and specification; the   *)
(* variables of the other subsystems stay at their initial values.         *)
(***************************************************************************)
EXTENDS Integers, Sequences, FiniteSets, TLC

(***************************************************************************)
(* Bounds of the model                                                     *)
(***************************************************************************)
\* number of start_op / cancel_op calls explored in the registry specification
MaxCalls == 4
\* number of threads that call the registry concurrently
NumThreads == 2
\* number of callers that run a speedtest command concurrently
NumCallers == 3
\* number of ping and traceroute command calls explored
MaxProbeCalls == 2
\* largest number of samples of a latency run
MaxSamples == 3
\* largest round-trip time of a latency request, in ms
MaxLatency == 3
\* length of the resolved target list of a host scan (it can name an IP twice)
MaxTargets == 2
\* largest setting.count of a host scan
MaxCount == 3
\* largest round-trip time the receiver measures, in ms
MaxRtt == 1
\* largest target_bytes of a speedtest, in units of 32 KiB
MaxBytes == 3
\* largest max_duration of a speedtest, in ticks of 250 ms
MaxDuration == 2
\* the time a speedtest is followed for, in ticks of 250 ms
MaxTime == 3

(***************************************************************************)
(* Operation registry: operation.rs                                        *)
(***************************************************************************)
OP_PING == "ping"
OP_TRACEROUTE == "traceroute"
OP_PORTSCAN == "portscan"
OP_HOSTSCAN == "hostscan"
OP_NEIGHBORSCAN == "neighborscan"

\* the keys the callers of the registry use
Classes == {OP_PING, OP_TRACEROUTE, OP_PORTSCAN, OP_HOSTSCAN, OP_NEIGHBORSCAN}

\* "no token": tokens are numbered 1, 2, ... in the order CancellationToken::new() made them
NoToken == 0

VARIABLES
    ops,              \* OPS: the HashMap<String, CancellationToken>, as a set of <<key, token>> entries
    cancelledTokens,  \* the tokens whose cancel() has been called (is_cancelled() = TRUE)
    issued,           \* history: issued[t] is the key start_op was called with when it made token t
    lastCall,         \* history: per key, the last registry call and what it returned
    nCalls,           \* history: number of registry calls made
    \* ---- host scan (probe/scan/icmp.rs), one run ----
    hs_pc,            \* position of host_scan: idle, start, resolve, sockets, collect, returned
    token,            \* the CancellationToken host_scan was called with
    setting,          \* HostScanSetting: count and concurrency
    target_map,       \* HashMap<IpAddr, Host> built from the hosts resolve_targets() returned: its keys
    total,            \* target_map.len()
    sockets,          \* the families a socket (and its receiver task) exists for
    pending,          \* pending_v4 and pending_v6: IP -> seq of the Pending entry (0: no entry)
    chan,             \* the oneshot channel of the IP's newest Pending: 0 empty, else the rtt sent
    wk,               \* the worker future of each IP of ip_list
    progress,         \* ThrottledProgress: the done counter
    events,           \* history: the events emitted so far, in order
    alive,            \* Vec<(Host, u64)> of the collect loop
    unreachable,      \* Vec<Host> of the collect loop
    hs_ret,           \* what host_scan returned: none, ok, err_socket, err_cancelled
    answered,         \* history: per IP, the try whose probe elicited the reply that filled
                      \* the one-shot channel (0 while the channel is empty)
    nb_pc,            \* position of neighbor_scan: idle, start, host_scan, enrich, returned
    nb_ret,           \* what neighbor_scan returned: none, ok, or the error
    \* ---- throughput engine (net/speedtest.rs), one run ----
    st_pc,            \* position of run_speedtest: idle, dl_loop, ul_loop, returned
    direction,        \* SpeedtestDirection of the run
    target_bytes,
    max_duration,
    now,              \* start.elapsed()
    next_tick,        \* the time the ticker fires next (its first tick is immediate)
    transferred,      \* download_test: bytes received
    sent,             \* upload_test: the AtomicU64 of bytes yielded to the request body
    remaining,        \* UpState.remaining
    body_done,        \* the upload body stream has ended
    req_handle,       \* the spawned upload request: none, running, ok, bad_status,
                      \* transport_error, join_error, aborted
    result,           \* the `result` local of the loop
    st_events,        \* history: the speedtest events emitted, in order
    reached_at,       \* history: elapsed time when the byte count first reached target_bytes (-1: not yet)
    st_ret,           \* what run_speedtest returned: none, ok, err
    \* ---- speedtest commands (command/speedtest.rs), one start_speedtest call ----
    speedtest_task,   \* AppState.speedtest_task: none, or the handle of the spawned task
    speedtest_last,   \* AppState.speedtest_last: none, or some (direction, target_bytes)
    start_pc,         \* position of start_speedtest: idle, spawn, store, returned
    task_pc,          \* the spawned task: none, running, clearing, finished, aborted
    abort_req,        \* handle.abort() has been called on the spawned task
    stop_pc,          \* position of the stop_speedtest call in progress: idle, take, notify
    last,             \* the `last` local of stop_speedtest
    stop_saw,         \* history: what the run was doing when stop_speedtest took its handle
    stop_emits,       \* history: number of events stop_speedtest emitted
    \* ---- speedtest commands called concurrently (command/speedtest.rs) ----
    task_slot,        \* AppState.speedtest_task: 0 for None, else the caller whose task the handle is of
    recorded,         \* AppState.speedtest_last: NoSetting, or the (direction, target_bytes) recorded
    calls,            \* per caller: the command it runs, its position in it and its locals
    spawned,          \* per caller: the task its start_speedtest spawned
    abort_called,     \* the tasks whose JoinHandle::abort() has been called
    canceled,         \* history: the Canceled events stop_speedtest emitted, each with the task aborted
    \* ---- ping and traceroute commands (command/ping.rs, command/trace.rs) ----
    cmd_req,          \* history: the number and the arguments of the latest command call
    cmd_ret,          \* what the latest command call returned: none, ok, err
    cmd_events,       \* history: the ping and traceroute events the commands and their tasks emitted
    cmd_tasks,        \* the spawned tasks, each with the result of its probe once it returned
    \* ---- latency measurement (net/latency.rs), one run ----
    lat_pc,           \* position of measure_latency_jitter: idle, loop, sleep, returned
    samples,          \* the `samples` argument
    lat_i,            \* the loop index i
    rtts,             \* Vec<f64> of the round-trip times, in ms
    lat_events,       \* history: the latency events emitted, in order
    lat_ret,          \* what measure_latency_jitter returned: none, ok, err
    \* ---- operation registry called from several threads (operation.rs) ----
    mutex,            \* the Mutex of OPS: 0 free, else the thread that holds the guard
    th,               \* per thread: its position in start_op / cancel_op and its locals
    returned          \* history: the tokens start_op has returned to its callers

regVars == <<ops, cancelledTokens, issued, lastCall, nCalls>>

scanVars == <<hs_pc, token, setting, target_map, total, sockets, pending, chan, wk,
              progress, events, alive, unreachable, hs_ret, answered>>

nbVars == <<nb_pc, nb_ret>>

speedVars == <<st_pc, direction, target_bytes, max_duration, now, next_tick, transferred, sent,
               remaining, body_done, req_handle, result, st_events, reached_at, st_ret>>

cmdVars == <<speedtest_task, speedtest_last, start_pc, task_pc, abort_req, stop_pc, last,
             stop_saw, stop_emits>>

callVars == <<task_slot, recorded, calls, spawned, abort_called, canceled>>

probeVars == <<cmd_req, cmd_ret, cmd_events, cmd_tasks>>

latVars == <<lat_pc, samples, lat_i, rtts, lat_events, lat_ret>>

thVars == <<mutex, th, returned>>

vars == <<ops, cancelledTokens, issued, lastCall, nCalls,
          hs_pc, token, setting, target_map, total, sockets, pending, chan, wk,
          progress, events, alive, unreachable, hs_ret, answered, nbVars,
          st_pc, direction, target_bytes, max_duration, now, next_tick, transferred, sent,
          remaining, body_done, req_handle, result, st_events, reached_at, st_ret,
          cmdVars, callVars, probeVars, latVars, thVars>>

\* the variables an action of one subsystem leaves alone
outsideThreads == <<scanVars, nbVars, speedVars, cmdVars, probeVars, latVars, callVars>>

outsideReg == <<outsideThreads, thVars>>

outsideReceiver == <<regVars, nbVars, speedVars, cmdVars, probeVars, latVars, thVars, callVars>>

outsideScan == <<outsideReceiver, answered>>

outsideNeigh == <<regVars, speedVars, cmdVars, probeVars, latVars, thVars, answered, callVars>>

outsideSpeed == <<regVars, scanVars, nbVars, cmdVars, probeVars, latVars, thVars, callVars>>

\* the speedtest commands act on the engine's variables as well
outsideCmd == <<regVars, scanVars, nbVars, probeVars, latVars, thVars, callVars>>

outsideCalls == <<regVars, scanVars, nbVars, speedVars, cmdVars, probeVars, latVars, thVars>>

outsideLat == <<regVars, scanVars, nbVars, speedVars, cmdVars, probeVars, thVars, callVars>>

NoCall == [op |-> "none", token |-> NoToken, ret |-> FALSE, n |-> 0]

\* HashMap::get
MapGet(map, key) ==
    IF \E e \in map : e[1] = key
    THEN (CHOOSE e \in map : e[1] = key)[2]
    ELSE NoToken

\* HashMap::remove: the map without the entry of key
MapRemove(map, key) == {e \in map : e[1] # key}

\* HashMap::insert: the entry of key is replaced
MapInsert(map, key, tok) == {e \in map : e[1] # key} \cup {<<key, tok>>}

\* CancellationToken::is_cancelled
is_cancelled(tok) == tok \in cancelledTokens

\* start_op without the cancel of the token it replaces
start_op_no_cancel(key) ==
    /\ nCalls < MaxCalls
    /\ LET tok == Len(issued) + 1 IN
        /\ ops' = MapInsert(MapRemove(ops, key), key, tok)
        /\ cancelledTokens' = cancelledTokens
        /\ issued' = Append(issued, key)
        /\ lastCall' = [lastCall EXCEPT ![key] = [op |-> "start_op", token |-> tok, ret |-> TRUE, n |-> nCalls + 1]]
    /\ nCalls' = nCalls + 1

\* operation.rs:19-29
start_op(key) ==
    /\ nCalls < MaxCalls
    /\ LET old == MapGet(ops, key)
           tok == Len(issued) + 1
       IN
        /\ ops' = MapInsert(MapRemove(ops, key), key, tok)
        /\ cancelledTokens' = IF old # NoToken THEN cancelledTokens \cup {old} ELSE cancelledTokens
        /\ issued' = Append(issued, key)
        /\ lastCall' = [lastCall EXCEPT ![key] = [op |-> "start_op", token |-> tok, ret |-> TRUE, n |-> nCalls + 1]]
    /\ nCalls' = nCalls + 1

\* cancel_op that cancels the token and reports it, but leaves the entry in the map
cancel_op_keeps_entry(key) ==
    /\ nCalls < MaxCalls
    /\ LET held == MapGet(ops, key) IN
        /\ ops' = ops
        /\ cancelledTokens' = IF held # NoToken THEN cancelledTokens \cup {held} ELSE cancelledTokens
        /\ lastCall' = [lastCall EXCEPT ![key] = [op |-> "cancel_op", token |-> held, ret |-> (held # NoToken), n |-> nCalls + 1]]
    /\ issued' = issued
    /\ nCalls' = nCalls + 1

\* operation.rs:31-39
cancel_op(key) ==
    /\ nCalls < MaxCalls
    /\ LET held == MapGet(ops, key) IN
        /\ ops' = MapRemove(ops, key)
        /\ cancelledTokens' = IF held # NoToken THEN cancelledTokens \cup {held} ELSE cancelledTokens
        /\ lastCall' = [lastCall EXCEPT ![key] = [op |-> "cancel_op", token |-> held, ret |-> (held # NoToken), n |-> nCalls + 1]]
    /\ issued' = issued
    /\ nCalls' = nCalls + 1

InitReg ==
    /\ ops = {}
    /\ cancelledTokens = {}
    /\ issued = <<>>
    /\ lastCall = [k \in Classes |-> NoCall]
    /\ nCalls = 0

(***************************************************************************)
(* ICMP host scan: probe/scan/icmp.rs                                      *)
(*                                                                         *)
(* host_scan, its workers (the futures of the buffer_unordered stream) and *)
(* its collect loop run on one task: a worker only advances inside a poll  *)
(* of tasks.next(), from one await to the next. The receiver tasks and the *)
(* callers of the registry run concurrently with that task.                *)
(***************************************************************************)
\* the addresses a target can resolve to: 1 stands for an IPv4 host, 2 for an IPv6 host
IPs == {1, 2}

\* IpAddr::is_ipv4: odd addresses stand for IPv4 ones, even addresses for IPv6 ones
is_ipv4(ip) == ip % 2 = 1

\* SocketFamily::from_ip
Family(ip) == IF is_ipv4(ip) THEN "IPV4" ELSE "IPV6"

\* the host lists resolve_targets() can give, up to their order (only the map is used)
TargetLists ==
    {h \in UNION {[1..n -> IPs] : n \in 0..MaxTargets} :
        \A i \in 1..Len(h) - 1 : h[i] <= h[i + 1]}

Min(a, b) == IF a <= b THEN a ELSE b

Max(a, b) == IF a >= b THEN a ELSE b

\* icmp.rs:82: the keys of the map collected from the hosts, one per IP
TargetMapOf(hosts) == {hosts[i] : i \in 1..Len(hosts)}

\* total taken from the host list instead of the map
TotalOfList(hosts) == Len(hosts)

\* icmp.rs:83
TotalOf(hosts) == Cardinality(TargetMapOf(hosts))

\* icmp.rs:116: the IPs a worker is made for (HashMap key order: any order)
ip_list == target_map

\* icmp.rs:135
cnt == Max(setting.count, 1)

NoWorker == [pc |-> "idle", seq |-> 0, best_rtt |-> 0, last_err |-> "none",
             state |-> "none", done |-> 0, adv |-> 0, tries |-> <<>>]

Ev(topic, ip, done) == [topic |-> topic, ip |-> ip, done |-> done]

\* the workers buffer_unordered has started and that have not returned
InFlight == {ip \in IPs : wk[ip].pc \in {"head", "send", "wait"}}

\* HashMap::remove on the pending map of the IP's family
PendingRemove(map, ip) == [map EXCEPT ![ip] = 0]

\* icmp.rs:221: best_rtt.map_or(rtt, |b| b.min(rtt)); 0 stands for None
BestRtt(best, rtt) == IF best = 0 THEN rtt ELSE Min(best, rtt)

\* a host counts as alive only when no try failed
ClassifyNoError(best_rtt, last_err) ==
    IF best_rtt # 0 /\ last_err = "none" THEN "Alive" ELSE "Unreachable"

\* icmp.rs:235-239
Classify(best_rtt, last_err) == IF best_rtt # 0 THEN "Alive" ELSE "Unreachable"

\* ThrottledProgress::on_advance, the counter: done is incremented atomically
on_advance(done) == done + 1

\* ThrottledProgress::on_advance, should_emit: always on the last advance, else
\* whenever the minimum interval has passed since the last emit
ShouldEmit(done) == IF done = total THEN {TRUE} ELSE {TRUE, FALSE}

\* the alive sample emitted once by the worker and once more for the collected item
SampleEventsTwice(ip, state, done, should_emit) ==
    (IF state = "Alive" THEN <<Ev("hostscan:alive", ip, done), Ev("hostscan:alive", ip, done)>> ELSE <<>>)
    \o (IF should_emit THEN <<Ev("hostscan:progress", 0, done)>> ELSE <<>>)

\* icmp.rs:260-273
SampleEvents(ip, state, done, should_emit) ==
    (IF state = "Alive" THEN <<Ev("hostscan:alive", ip, done)>> ELSE <<>>)
    \o (IF should_emit THEN <<Ev("hostscan:progress", 0, done)>> ELSE <<>>)

\* a worker that advances the progress once for its sample and once more for the
\* progress event
CompleteAdvancesTwice(ip, w) ==
    LET state == Classify(w.best_rtt, w.last_err)
        done == on_advance(on_advance(progress))
    IN \E should_emit \in ShouldEmit(done) :
        /\ progress' = done
        /\ events' = events \o SampleEvents(ip, state, done, should_emit)
        /\ wk' = [wk EXCEPT ![ip] = [w EXCEPT !.pc = "some", !.state = state,
                                              !.done = done, !.adv = w.adv + 2]]
        /\ alive' = IF state = "Alive" THEN Append(alive, <<ip, w.best_rtt>>) ELSE alive
        /\ unreachable' = IF state = "Unreachable" THEN Append(unreachable, ip) ELSE unreachable

\* icmp.rs:235-275 and 296-309: the worker w of ip leaves its seq loop, advances the
\* progress, emits and returns Some(sample), which the collect loop files at once
Complete(ip, w) ==
    LET state == Classify(w.best_rtt, w.last_err)
        done == on_advance(progress)
    IN \E should_emit \in ShouldEmit(done) :
        /\ progress' = done
        /\ events' = events \o SampleEvents(ip, state, done, should_emit)
        /\ wk' = [wk EXCEPT ![ip] = [w EXCEPT !.pc = "some", !.state = state,
                                              !.done = done, !.adv = w.adv + 1]]
        /\ alive' = IF state = "Alive" THEN Append(alive, <<ip, w.best_rtt>>) ELSE alive
        /\ unreachable' = IF state = "Unreachable" THEN Append(unreachable, ip) ELSE unreachable

\* icmp.rs:164: the next seq of the loop, or the end of the loop
NextTry(ip, w) ==
    IF w.seq < cnt
    THEN /\ wk' = [wk EXCEPT ![ip] = [w EXCEPT !.pc = "head", !.seq = w.seq + 1]]
         /\ UNCHANGED <<progress, events, alive, unreachable>>
    ELSE Complete(ip, w)

\* icmp.rs:141-143 and 166-168, 195-198, 211-214: the worker returns None
ReturnNone(ip) ==
    /\ wk' = [wk EXCEPT ![ip].pc = "none"]
    /\ UNCHANGED <<progress, events, alive, unreachable>>

\* a fan-out that starts a worker whatever the number of workers in progress
w_spawn_unbounded(ip) ==
    /\ hs_pc = "collect"
    /\ ip \in ip_list
    /\ wk[ip].pc = "idle"
    /\ IF is_cancelled(token)
       THEN ReturnNone(ip)
       ELSE IF Family(ip) \in sockets
            THEN /\ wk' = [wk EXCEPT ![ip] = [@ EXCEPT !.pc = "head", !.seq = 1]]
                 /\ UNCHANGED <<progress, events, alive, unreachable>>
            ELSE Complete(ip, [wk[ip] EXCEPT !.last_err = "no suitable socket"])
    /\ UNCHANGED <<hs_pc, token, setting, target_map, total, sockets, pending, chan, hs_ret>>
    /\ UNCHANGED outsideScan

\* icmp.rs:140-158: first poll of the worker of ip, started by buffer_unordered
\* while fewer than `concurrency` workers are in progress
w_spawn(ip) ==
    /\ hs_pc = "collect"
    /\ ip \in ip_list
    /\ wk[ip].pc = "idle"
    /\ Cardinality(InFlight) < setting.concurrency
    /\ IF is_cancelled(token)
       THEN ReturnNone(ip)
       ELSE IF Family(ip) \in sockets
            THEN /\ wk' = [wk EXCEPT ![ip] = [@ EXCEPT !.pc = "head", !.seq = 1]]
                 /\ UNCHANGED <<progress, events, alive, unreachable>>
            ELSE Complete(ip, [wk[ip] EXCEPT !.last_err = "no suitable socket"])
    /\ UNCHANGED <<hs_pc, token, setting, target_map, total, sockets, pending, chan, hs_ret>>
    /\ UNCHANGED outsideScan

\* icmp.rs:165-184: loop head: give up when cancelled, else insert the Pending of this try
w_head(ip) ==
    /\ hs_pc = "collect"
    /\ wk[ip].pc = "head"
    /\ IF is_cancelled(token)
       THEN /\ pending' = PendingRemove(pending, ip)
            /\ UNCHANGED <<chan, answered>>
            /\ ReturnNone(ip)
       ELSE /\ pending' = [pending EXCEPT ![ip] = wk[ip].seq]
            /\ chan' = [chan EXCEPT ![ip] = 0]
            /\ answered' = [answered EXCEPT ![ip] = 0]
            /\ wk' = [wk EXCEPT ![ip].pc = "send"]
            /\ UNCHANGED <<progress, events, alive, unreachable>>
    /\ UNCHANGED <<hs_pc, token, setting, target_map, total, sockets, hs_ret>>
    /\ UNCHANGED outsideReceiver

\* icmp.rs:194-199: select! takes the cancelled() arm
w_send_cancelled(ip) ==
    /\ hs_pc = "collect"
    /\ wk[ip].pc = "send"
    /\ is_cancelled(token)
    /\ pending' = PendingRemove(pending, ip)
    /\ ReturnNone(ip)
    /\ chan' = [chan EXCEPT ![ip] = 0]
    /\ answered' = [answered EXCEPT ![ip] = 0]
    /\ UNCHANGED <<hs_pc, token, setting, target_map, total, sockets, hs_ret>>
    /\ UNCHANGED outsideReceiver

\* icmp.rs:200: send_to succeeds: the probe of this try is on the wire
w_send_ok(ip) ==
    /\ hs_pc = "collect"
    /\ wk[ip].pc = "send"
    /\ wk' = [wk EXCEPT ![ip].pc = "wait"]
    /\ UNCHANGED <<hs_pc, token, setting, target_map, total, sockets, pending, chan, hs_ret>>
    /\ UNCHANGED <<progress, events, alive, unreachable>>
    /\ UNCHANGED outsideScan

\* a send error that is returned from host_scan as the job's error
w_send_err_fails_job(ip) ==
    /\ hs_pc = "collect"
    /\ wk[ip].pc = "send"
    /\ pending' = PendingRemove(pending, ip)
    /\ wk' = [wk EXCEPT ![ip] = [@ EXCEPT !.pc = "none", !.last_err = "send error",
                                          !.tries = Append(@, -1)]]
    /\ chan' = [chan EXCEPT ![ip] = 0]
    /\ answered' = [answered EXCEPT ![ip] = 0]
    /\ hs_ret' = "err_send"
    /\ hs_pc' = "returned"
    /\ UNCHANGED <<token, setting, target_map, total, sockets,
                   progress, events, alive, unreachable>>
    /\ UNCHANGED outsideReceiver

\* icmp.rs:203-208: send_to fails
w_send_err(ip) ==
    /\ hs_pc = "collect"
    /\ wk[ip].pc = "send"
    /\ pending' = PendingRemove(pending, ip)
    /\ NextTry(ip, [wk[ip] EXCEPT !.last_err = "send error", !.tries = Append(@, -1)])
    /\ chan' = [chan EXCEPT ![ip] = 0]
    /\ answered' = [answered EXCEPT ![ip] = 0]
    /\ UNCHANGED <<hs_pc, token, setting, target_map, total, sockets, hs_ret>>
    /\ UNCHANGED outsideReceiver

\* icmp.rs:210-215: select! takes the cancelled() arm
w_wait_cancelled(ip) ==
    /\ hs_pc = "collect"
    /\ wk[ip].pc = "wait"
    /\ is_cancelled(token)
    /\ pending' = PendingRemove(pending, ip)
    /\ ReturnNone(ip)
    /\ chan' = [chan EXCEPT ![ip] = 0]
    /\ answered' = [answered EXCEPT ![ip] = 0]
    /\ UNCHANGED <<hs_pc, token, setting, target_map, total, sockets, hs_ret>>
    /\ UNCHANGED outsideReceiver

\* a reply that does not break the loop: the worker goes on to its next try
w_wait_reply_no_break(ip) ==
    /\ hs_pc = "collect"
    /\ wk[ip].pc = "wait"
    /\ chan[ip] # 0
    /\ NextTry(ip, [wk[ip] EXCEPT !.best_rtt = BestRtt(@, chan[ip]),
                                  !.tries = Append(@, chan[ip])])
    /\ chan' = [chan EXCEPT ![ip] = 0]
    /\ answered' = [answered EXCEPT ![ip] = 0]
    /\ UNCHANGED <<hs_pc, token, setting, target_map, total, sockets, pending, hs_ret>>
    /\ UNCHANGED outsideReceiver

\* icmp.rs:216-223: the receiver has fulfilled the channel: Ok(Ok(rtt)), break
w_wait_reply(ip) ==
    /\ hs_pc = "collect"
    /\ wk[ip].pc = "wait"
    /\ chan[ip] # 0
    /\ Complete(ip, [wk[ip] EXCEPT !.best_rtt = BestRtt(@, chan[ip]),
                                   !.tries = Append(@, chan[ip])])
    /\ chan' = [chan EXCEPT ![ip] = 0]
    /\ answered' = [answered EXCEPT ![ip] = 0]
    /\ UNCHANGED <<hs_pc, token, setting, target_map, total, sockets, pending, hs_ret>>
    /\ UNCHANGED outsideReceiver

\* a timeout that leaves the Pending of the try in the map
w_wait_timeout_keeps_pending(ip) ==
    /\ hs_pc = "collect"
    /\ wk[ip].pc = "wait"
    /\ chan[ip] = 0
    /\ pending' = pending
    /\ NextTry(ip, [wk[ip] EXCEPT !.last_err = "timeout", !.tries = Append(@, 0)])
    /\ chan' = [chan EXCEPT ![ip] = 0]
    /\ answered' = [answered EXCEPT ![ip] = 0]
    /\ UNCHANGED <<hs_pc, token, setting, target_map, total, sockets, hs_ret>>
    /\ UNCHANGED outsideReceiver

\* icmp.rs:216, 227-231: the timeout ends the wait with the channel still empty
w_wait_timeout(ip) ==
    /\ hs_pc = "collect"
    /\ wk[ip].pc = "wait"
    /\ chan[ip] = 0
    /\ pending' = PendingRemove(pending, ip)
    /\ NextTry(ip, [wk[ip] EXCEPT !.last_err = "timeout", !.tries = Append(@, 0)])
    /\ chan' = [chan EXCEPT ![ip] = 0]
    /\ answered' = [answered EXCEPT ![ip] = 0]
    /\ UNCHANGED <<hs_pc, token, setting, target_map, total, sockets, hs_ret>>
    /\ UNCHANGED outsideReceiver

\* the tries of ip whose send_to succeeded: their probes went out
SentSeqs(ip) ==
    {i \in 1..Len(wk[ip].tries) : wk[ip].tries[i] # -1}
    \cup (IF wk[ip].pc = "wait" THEN {wk[ip].seq} ELSE {})

\* the probes that went out to ip so far (the tries whose send_to succeeded)
ProbesSent(ip) ==
    Cardinality({i \in 1..Len(wk[ip].tries) : wk[ip].tries[i] # -1})
    + (IF wk[ip].pc = "wait" THEN 1 ELSE 0)

\* a receiver whose first reply leaves the Pending entry in the map
recv_reply_keeps_pending(ip) ==
    /\ hs_pc = "collect"
    /\ Family(ip) \in sockets
    /\ \E k \in SentSeqs(ip) :
         IF pending[ip] # 0
         THEN /\ pending' = pending
              /\ \E rtt \in 1..MaxRtt : chan' = [chan EXCEPT ![ip] = rtt]
              /\ answered' = [answered EXCEPT ![ip] = k]
         ELSE UNCHANGED <<pending, chan, answered>>
    /\ UNCHANGED <<hs_pc, token, setting, target_map, total, sockets, wk,
                   progress, events, alive, unreachable, hs_ret>>
    /\ UNCHANGED outsideReceiver

\* icmp.rs:30-58 spawn_receiver: an echo reply from ip reaches the socket of its
\* family. It answers the probe of one of the tries sent so far, k (a target that was
\* probed can answer late, or more than once). The Pending of ip, if any, is removed
\* and its channel gets sent_at.elapsed(); with no Pending the reply is dropped and the
\* loop goes back to recv_from
recv_reply(ip) ==
    /\ hs_pc = "collect"
    /\ Family(ip) \in sockets
    /\ \E k \in SentSeqs(ip) :
         IF pending[ip] # 0
         THEN /\ pending' = PendingRemove(pending, ip)
              /\ \E rtt \in 1..MaxRtt : chan' = [chan EXCEPT ![ip] = rtt]
              /\ answered' = [answered EXCEPT ![ip] = k]
         ELSE UNCHANGED <<pending, chan, answered>>
    /\ UNCHANGED <<hs_pc, token, setting, target_map, total, sockets, wk,
                   progress, events, alive, unreachable, hs_ret>>
    /\ UNCHANGED outsideReceiver

\* icmp.rs:38-50: a datagram from ip that does not parse as an echo reply: nothing is
\* looked up, the loop goes back to recv_from
recv_other(ip) ==
    /\ hs_pc = "collect"
    /\ Family(ip) \in sockets
    /\ UNCHANGED <<hs_pc, token, setting, target_map, total, sockets, pending, chan, wk,
                   progress, events, alive, unreachable, hs_ret, answered>>
    /\ UNCHANGED outsideReceiver

\* the terminal event chosen without looking at the token
FinalTopicIgnoresToken(cancelled) == IF cancelled THEN "hostscan:cancelled" ELSE "hostscan:done"

\* icmp.rs:322-334: `cancelled` is the flag of the collect loop
FinalTopic(cancelled) ==
    IF cancelled \/ is_cancelled(token) THEN "hostscan:cancelled" ELSE "hostscan:done"

\* icmp.rs:312-335: drop the stream (the workers in progress and their channels are
\* gone), shut the receivers down (their locals are gone), emit the terminal event
Finish(cancelled) ==
    LET topic == FinalTopic(cancelled) IN
    /\ wk' = [ip \in IPs |-> IF ip \in InFlight THEN [NoWorker EXCEPT !.pc = "dropped"] ELSE wk[ip]]
    /\ chan' = [ip \in IPs |-> 0]
    /\ answered' = [ip \in IPs |-> 0]
    /\ events' = Append(events, Ev(topic, 0, 0))
    /\ hs_ret' = IF topic = "hostscan:done" THEN "ok" ELSE "err_cancelled"
    /\ hs_pc' = "returned"

\* icmp.rs:286-290: select! takes the cancelled() arm of the collect loop
hs_collect_cancelled ==
    /\ hs_pc = "collect"
    /\ is_cancelled(token)
    /\ Finish(TRUE)
    /\ UNCHANGED <<token, setting, target_map, total, sockets, pending,
                   progress, alive, unreachable>>
    /\ UNCHANGED outsideReceiver

\* icmp.rs:291-294: tasks.next() gives None: every worker was started and has returned
hs_stream_end ==
    /\ hs_pc = "collect"
    /\ \A ip \in ip_list : wk[ip].pc \in {"some", "none"}
    /\ Finish(FALSE)
    /\ UNCHANGED <<token, setting, target_map, total, sockets, pending,
                   progress, alive, unreachable>>
    /\ UNCHANGED outsideReceiver

\* the entry-point of a host scan: registers the job under OP_HOSTSCAN and calls
\* host_scan with the token and the caller's setting
host_scan_command ==
    /\ hs_pc = "idle"
    /\ start_op(OP_HOSTSCAN)
    /\ token' = Len(issued) + 1
    /\ \E c \in 0..MaxCount, n \in 1..Cardinality(IPs) : setting' = [count |-> c, concurrency |-> n]
    /\ hs_pc' = "start"
    /\ UNCHANGED <<target_map, total, sockets, pending, chan, wk,
                   progress, events, alive, unreachable, hs_ret, answered>>
    /\ UNCHANGED <<nbVars, speedVars, cmdVars, callVars, probeVars, latVars, thVars>>

\* icmp.rs:68-78
hs_begin ==
    /\ hs_pc = "start"
    /\ events' = Append(events, Ev("hostscan:start", 0, 0))
    /\ hs_pc' = "resolve"
    /\ UNCHANGED <<token, setting, target_map, total, sockets, pending, chan, wk,
                   progress, alive, unreachable, hs_ret>>
    /\ UNCHANGED outsideScan

\* a run that goes on to open its sockets when the target set is empty
hs_resolve_keeps_going ==
    /\ hs_pc = "resolve"
    /\ \E hosts \in TargetLists :
        /\ target_map' = TargetMapOf(hosts)
        /\ total' = TotalOf(hosts)
        /\ hs_pc' = "sockets"
        /\ UNCHANGED <<events, hs_ret>>
    /\ UNCHANGED <<token, setting, sockets, pending, chan, wk,
                   progress, alive, unreachable>>
    /\ UNCHANGED outsideScan

\* icmp.rs:81-91: resolve_targets() returns; an empty target set ends the run with done
hs_resolve ==
    /\ hs_pc = "resolve"
    /\ \E hosts \in TargetLists :
        /\ target_map' = TargetMapOf(hosts)
        /\ total' = TotalOf(hosts)
        /\ IF TotalOf(hosts) = 0
           THEN /\ events' = Append(events, Ev("hostscan:done", 0, 0))
                /\ hs_ret' = "ok"
                /\ hs_pc' = "returned"
           ELSE /\ hs_pc' = "sockets"
                /\ UNCHANGED <<events, hs_ret>>
    /\ UNCHANGED <<token, setting, sockets, pending, chan, wk,
                   progress, alive, unreachable>>
    /\ UNCHANGED outsideScan

\* icmp.rs:94-114: a socket per family that has a target, and its receiver
hs_sockets_ok ==
    /\ hs_pc = "sockets"
    /\ sockets' = {Family(ip) : ip \in target_map}
    /\ hs_pc' = "collect"
    /\ UNCHANGED <<token, setting, target_map, total, pending, chan, wk,
                   progress, events, alive, unreachable, hs_ret>>
    /\ UNCHANGED outsideScan

\* icmp.rs:97 and 105: AsyncIcmpSocket::new fails and `?` returns the error
hs_sockets_err ==
    /\ hs_pc = "sockets"
    /\ hs_ret' = "err_socket"
    /\ hs_pc' = "returned"
    /\ UNCHANGED <<token, setting, target_map, total, sockets, pending, chan, wk,
                   progress, events, alive, unreachable>>
    /\ UNCHANGED outsideScan

\* a caller cancels the running host scan: cancel_op(OP_HOSTSCAN)
scan_cancel_op ==
    /\ hs_pc \notin {"idle", "returned"}
    /\ ~is_cancelled(token)
    /\ cancel_op(OP_HOSTSCAN)
    /\ UNCHANGED outsideReg

\* a caller starts another job of the class while the host scan runs: start_op(OP_HOSTSCAN)
scan_replace_op ==
    /\ hs_pc \notin {"idle", "returned"}
    /\ ~is_cancelled(token)
    /\ start_op(OP_HOSTSCAN)
    /\ UNCHANGED outsideReg

InitScan ==
    /\ hs_pc = "idle"
    /\ token = NoToken
    /\ setting = [count |-> 0, concurrency |-> 0]
    /\ target_map = {}
    /\ total = 0
    /\ sockets = {}
    /\ pending = [ip \in IPs |-> 0]
    /\ chan = [ip \in IPs |-> 0]
    /\ wk = [ip \in IPs |-> NoWorker]
    /\ progress = 0
    /\ events = <<>>
    /\ alive = <<>>
    /\ unreachable = <<>>
    /\ hs_ret = "none"
    /\ answered = [ip \in IPs |-> 0]

(***************************************************************************)
(* Throughput engine: net/speedtest.rs                                     *)
(*                                                                         *)
(* Time is counted in ticks of the 250 ms ticker, bytes in units of half a *)
(* chunk (32 KiB). One run of run_speedtest is modelled.                   *)
(***************************************************************************)
\* speedtest.rs:21: the ticker period, in ticks
TICK == 1

\* speedtest.rs:22: the size of an upload chunk, in units of 32 KiB
CHUNK_SIZE == 2

Directions == {"download", "upload"}

StEv(topic, res, el, bytes) ==
    [topic |-> topic, result |-> res, elapsed_ms |-> el, transferred_bytes |-> bytes]

\* history: the elapsed time at which the byte count first reached target_bytes
ReachedAt(bytes) ==
    IF reached_at = -1 /\ bytes >= target_bytes THEN now ELSE reached_at

\* speedtest.rs:179-190 and 324-336: the done event after the loop
DoneEvent(res, bytes) == StEv("speedtest:done", res, now, bytes)

\* speedtest.rs:56-79, 88-107 and 202-244: the client is built, the token fetched
\* and the request started; target_bytes and max_duration come from the caller
run_speedtest ==
    /\ st_pc = "idle"
    /\ \E d \in Directions, t \in 1..MaxBytes, m \in 1..MaxDuration :
        /\ direction' = d
        /\ target_bytes' = t
        /\ max_duration' = m
        /\ remaining' = IF d = "upload" THEN t ELSE 0
        /\ req_handle' = IF d = "upload" THEN "running" ELSE "none"
        /\ st_pc' = IF d = "download" THEN "dl_loop" ELSE "ul_loop"
    /\ result' = "Full"
    /\ UNCHANGED <<now, next_tick, transferred, sent, body_done, st_events, reached_at, st_ret>>
    /\ UNCHANGED outsideSpeed

\* speedtest.rs:67 and 90-99: get_token or GET /download fails: the error is
\* returned before any event
run_speedtest_fails ==
    /\ st_pc = "idle"
    /\ st_pc' = "returned"
    /\ st_ret' = "err"
    /\ UNCHANGED <<direction, target_bytes, max_duration, now, next_tick, transferred, sent,
                   remaining, body_done, req_handle, result, st_events, reached_at>>
    /\ UNCHANGED outsideSpeed

\* the clock: Instant::now() moves on while a run is in its loop
time_passes ==
    /\ st_pc \in {"dl_loop", "ul_loop"}
    /\ now < MaxTime
    /\ now' = now + 1
    /\ UNCHANGED <<st_pc, direction, target_bytes, max_duration, next_tick, transferred, sent,
                   remaining, body_done, req_handle, result, st_events, reached_at, st_ret>>
    /\ UNCHANGED outsideSpeed

\* speedtest.rs:113-143: the ticker arm of download_test
dl_tick ==
    /\ st_pc = "dl_loop"
    /\ now >= next_tick
    /\ next_tick' = next_tick + TICK
    /\ LET update == StEv("speedtest:update", "running", now, transferred) IN
       IF now >= max_duration
       THEN /\ result' = "Timeout"
            /\ st_events' = st_events \o <<update, DoneEvent("Timeout", transferred)>>
            /\ st_pc' = "returned"
            /\ st_ret' = "ok"
       ELSE IF transferred >= target_bytes
            THEN /\ result' = "Full"
                 /\ st_events' = st_events \o <<update, DoneEvent("Full", transferred)>>
                 /\ st_pc' = "returned"
                 /\ st_ret' = "ok"
            ELSE /\ st_events' = Append(st_events, update)
                 /\ UNCHANGED <<result, st_pc, st_ret>>
    /\ UNCHANGED <<direction, target_bytes, max_duration, now, transferred, sent,
                   remaining, body_done, req_handle, reached_at>>
    /\ UNCHANGED outsideSpeed

\* speedtest.rs:144-156: Some(Ok(b)): a chunk of len bytes arrives
dl_chunk(len) ==
    /\ st_pc = "dl_loop"
    /\ LET t == transferred + len IN
        /\ transferred' = t
        /\ reached_at' = ReachedAt(t)
        /\ IF t >= target_bytes
           THEN /\ result' = "Full"
                /\ st_events' = Append(st_events, DoneEvent("Full", t))
                /\ st_pc' = "returned"
                /\ st_ret' = "ok"
           ELSE IF now >= max_duration
                THEN /\ result' = "Timeout"
                     /\ st_events' = Append(st_events, DoneEvent("Timeout", t))
                     /\ st_pc' = "returned"
                     /\ st_ret' = "ok"
                ELSE UNCHANGED <<result, st_events, st_pc, st_ret>>
    /\ UNCHANGED <<direction, target_bytes, max_duration, now, next_tick, sent,
                   remaining, body_done, req_handle>>
    /\ UNCHANGED outsideSpeed

\* speedtest.rs:157-169: Some(Err(e)): done with result Error, then the error is returned
dl_stream_error ==
    /\ st_pc = "dl_loop"
    /\ st_events' = Append(st_events, DoneEvent("Error", transferred))
    /\ st_pc' = "returned"
    /\ st_ret' = "err"
    /\ UNCHANGED <<direction, target_bytes, max_duration, now, next_tick, transferred, sent,
                   remaining, body_done, req_handle, result, reached_at>>
    /\ UNCHANGED outsideSpeed

\* speedtest.rs:170-173 and 179-192: None: the stream ends, the loop breaks with
\* the result it has
dl_stream_end ==
    /\ st_pc = "dl_loop"
    /\ st_events' = Append(st_events, DoneEvent(result, transferred))
    /\ st_pc' = "returned"
    /\ st_ret' = "ok"
    /\ UNCHANGED <<direction, target_bytes, max_duration, now, next_tick, transferred, sent,
                   remaining, body_done, req_handle, result, reached_at>>
    /\ UNCHANGED outsideSpeed

\* a body generator that always yields a whole chunk
up_body_next_whole_chunks ==
    /\ st_pc = "ul_loop"
    /\ req_handle = "running"
    /\ ~body_done
    /\ IF remaining <= 0 \/ now >= max_duration
       THEN /\ body_done' = TRUE
            /\ UNCHANGED <<remaining, sent, reached_at>>
       ELSE LET take == CHUNK_SIZE IN
            /\ remaining' = remaining - take
            /\ sent' = sent + take
            /\ reached_at' = ReachedAt(sent + take)
            /\ UNCHANGED body_done
    /\ UNCHANGED <<st_pc, direction, target_bytes, max_duration, now, next_tick, transferred,
                   req_handle, result, st_events, st_ret>>
    /\ UNCHANGED outsideSpeed

\* speedtest.rs:208-229: the request task polls the body stream for its next chunk
up_body_next ==
    /\ st_pc = "ul_loop"
    /\ req_handle = "running"
    /\ ~body_done
    /\ IF remaining = 0 \/ now >= max_duration
       THEN /\ body_done' = TRUE
            /\ UNCHANGED <<remaining, sent, reached_at>>
       ELSE LET take == Min(remaining, CHUNK_SIZE) IN
            /\ remaining' = remaining - take
            /\ sent' = sent + take
            /\ reached_at' = ReachedAt(sent + take)
            /\ UNCHANGED body_done
    /\ UNCHANGED <<st_pc, direction, target_bytes, max_duration, now, next_tick, transferred,
                   req_handle, result, st_events, st_ret>>
    /\ UNCHANGED outsideSpeed

\* speedtest.rs:242: the request task ends: a 2xx response, another status, a
\* transport error, or a panic of the task
req_finishes(outcome) ==
    /\ st_pc = "ul_loop"
    /\ req_handle = "running"
    /\ req_handle' = outcome
    /\ UNCHANGED <<st_pc, direction, target_bytes, max_duration, now, next_tick, transferred,
                   sent, remaining, body_done, result, st_events, reached_at, st_ret>>
    /\ UNCHANGED outsideSpeed

\* speedtest.rs:248-281: the ticker arm of upload_test
up_tick ==
    /\ st_pc = "ul_loop"
    /\ now >= next_tick
    /\ next_tick' = next_tick + TICK
    /\ LET update == StEv("speedtest:update", "running", now, sent) IN
       IF now >= max_duration
       THEN /\ result' = "Timeout"
            /\ req_handle' = "aborted"
            /\ st_events' = st_events \o <<update, DoneEvent("Timeout", sent)>>
            /\ st_pc' = "returned"
            /\ st_ret' = "ok"
       ELSE /\ result' = IF sent >= target_bytes THEN "Full" ELSE result
            /\ st_events' = Append(st_events, update)
            /\ UNCHANGED <<req_handle, st_pc, st_ret>>
    /\ UNCHANGED <<direction, target_bytes, max_duration, now, transferred, sent,
                   remaining, body_done, reached_at>>
    /\ UNCHANGED outsideSpeed

\* speedtest.rs:282-300 and 324-338: the request finished with a 2xx response
up_req_ok ==
    /\ st_pc = "ul_loop"
    /\ req_handle = "ok"
    /\ st_events' = Append(st_events, DoneEvent(result, sent))
    /\ st_pc' = "returned"
    /\ st_ret' = "ok"
    /\ UNCHANGED <<direction, target_bytes, max_duration, now, next_tick, transferred, sent,
                   remaining, body_done, req_handle, result, reached_at>>
    /\ UNCHANGED outsideSpeed

\* speedtest.rs:286-298 and 301-313: a non-2xx response or a transport error
up_req_error ==
    /\ st_pc = "ul_loop"
    /\ req_handle \in {"bad_status", "transport_error"}
    /\ result' = "Error"
    /\ st_events' = Append(st_events, DoneEvent("Error", sent))
    /\ st_pc' = "returned"
    /\ st_ret' = "err"
    /\ UNCHANGED <<direction, target_bytes, max_duration, now, next_tick, transferred, sent,
                   remaining, body_done, req_handle, reached_at>>
    /\ UNCHANGED outsideSpeed

\* speedtest.rs:314-318 and 324-338: the JoinHandle gives a JoinError
up_req_join_error ==
    /\ st_pc = "ul_loop"
    /\ req_handle = "join_error"
    /\ result' = "Canceled"
    /\ st_events' = Append(st_events, DoneEvent("Canceled", sent))
    /\ st_pc' = "returned"
    /\ st_ret' = "ok"
    /\ UNCHANGED <<direction, target_bytes, max_duration, now, next_tick, transferred, sent,
                   remaining, body_done, req_handle, reached_at>>
    /\ UNCHANGED outsideSpeed

InitSpeed ==
    /\ st_pc = "idle"
    /\ direction = "download"
    /\ target_bytes = 0
    /\ max_duration = 0
    /\ now = 0
    /\ next_tick = 0
    /\ transferred = 0
    /\ sent = 0
    /\ remaining = 0
    /\ body_done = FALSE
    /\ req_handle = "none"
    /\ result = "Full"
    /\ st_events = <<>>
    /\ reached_at = -1
    /\ st_ret = "none"

NextSpeed ==
    \/ run_speedtest
    \/ run_speedtest_fails
    \/ time_passes
    \/ dl_tick
    \/ \E len \in 1..CHUNK_SIZE : dl_chunk(len)
    \/ dl_stream_error
    \/ dl_stream_end
    \/ up_body_next
    \/ \E outcome \in {"ok", "bad_status", "transport_error", "join_error"} : req_finishes(outcome)
    \/ up_tick
    \/ up_req_ok
    \/ up_req_error
    \/ up_req_join_error

(***************************************************************************)
(* Speedtest commands: command/speedtest.rs                                *)
(*                                                                         *)
(* One start_speedtest call and any number of stop_speedtest calls, which  *)
(* run concurrently with the spawned task. abort() marks the task; the     *)
(* task goes on until it next yields, which is when the abort takes effect.*)
(***************************************************************************)
\* the variables of the engine the commands and the task's shell do not write
engineLocals == <<direction, target_bytes, max_duration, now, next_tick, transferred, sent,
                  remaining, body_done, req_handle, result, reached_at, st_ret>>

\* the spawned task exists and has neither finished nor been cancelled
TaskAlive == task_pc \in {"running", "clearing"}

\* the run of the spawned task has not yet emitted a speedtest:done or returned
RunInProgress == task_pc = "running" /\ st_pc \in {"idle", "dl_loop", "ul_loop"}

\* command/speedtest.rs:18-25: a handle that is held is taken and aborted, the
\* setting is remembered
start_speedtest_begin ==
    /\ start_pc = "idle"
    /\ start_pc' = "spawn"
    /\ speedtest_task' = "none"
    /\ abort_req' = (abort_req \/ speedtest_task = "handle")
    /\ speedtest_last' = "some"
    /\ UNCHANGED <<task_pc, stop_pc, last, stop_saw, stop_emits>>
    /\ UNCHANGED <<speedVars, outsideCmd>>

\* command/speedtest.rs:27-33: the task is spawned
start_speedtest_spawn ==
    /\ start_pc = "spawn"
    /\ start_pc' = "store"
    /\ task_pc' = "running"
    /\ UNCHANGED <<speedtest_task, speedtest_last, abort_req, stop_pc, last,
                   stop_saw, stop_emits>>
    /\ UNCHANGED <<speedVars, outsideCmd>>

\* command/speedtest.rs:54-59: the handle is stored
start_speedtest_store ==
    /\ start_pc = "store"
    /\ start_pc' = "returned"
    /\ speedtest_task' = "handle"
    /\ UNCHANGED <<speedtest_last, task_pc, abort_req, stop_pc, last,
                   stop_saw, stop_emits>>
    /\ UNCHANGED <<speedVars, outsideCmd>>

\* command/speedtest.rs:34: the task calls run_speedtest
task_run == task_pc = "running" /\ run_speedtest

task_run_fails == task_pc = "running" /\ run_speedtest_fails

\* command/speedtest.rs:34-47: run_speedtest has returned; on Err the shell emits
\* a speedtest:done with result Error, elapsed_ms 0 and transferred_bytes 0
task_after_run ==
    /\ task_pc = "running"
    /\ st_pc = "returned"
    /\ task_pc' = "clearing"
    /\ st_events' = IF st_ret = "err"
                    THEN Append(st_events, StEv("speedtest:done", "Error", 0, 0))
                    ELSE st_events
    /\ UNCHANGED <<speedtest_task, speedtest_last, start_pc, abort_req, stop_pc, last,
                   stop_saw, stop_emits>>
    /\ UNCHANGED <<st_pc, engineLocals, outsideCmd>>

\* command/speedtest.rs:49-51: the task clears the handle
task_clear_handle ==
    /\ task_pc = "clearing"
    /\ task_pc' = "finished"
    /\ speedtest_task' = "none"
    /\ UNCHANGED <<speedtest_last, start_pc, abort_req, stop_pc, last,
                   stop_saw, stop_emits>>
    /\ UNCHANGED <<speedVars, outsideCmd>>

\* JoinHandle::abort takes effect: the task is dropped where it yielded
task_aborted ==
    /\ abort_req
    /\ TaskAlive
    /\ task_pc' = "aborted"
    /\ st_pc' = IF st_pc = "returned" THEN st_pc ELSE "aborted"
    /\ UNCHANGED <<speedtest_task, speedtest_last, start_pc, abort_req, stop_pc, last,
                   stop_saw, stop_emits>>
    /\ UNCHANGED <<st_events, engineLocals, outsideCmd>>

\* command/speedtest.rs:67: stop_speedtest reads speedtest_last
stop_speedtest_begin ==
    /\ stop_pc = "idle"
    /\ last' = speedtest_last
    /\ stop_pc' = "take"
    /\ UNCHANGED <<speedtest_task, speedtest_last, start_pc, task_pc, abort_req,
                   stop_saw, stop_emits>>
    /\ UNCHANGED <<speedVars, outsideCmd>>

\* command/speedtest.rs:69-77: a handle that is held is taken and aborted
stop_speedtest_take ==
    /\ stop_pc = "take"
    /\ IF speedtest_task = "handle"
       THEN /\ speedtest_task' = "none"
            /\ abort_req' = TRUE
            /\ stop_pc' = "notify"
            /\ stop_saw' = IF RunInProgress THEN "in_progress" ELSE "run_over"
       ELSE /\ stop_pc' = "idle"
            /\ UNCHANGED <<speedtest_task, abort_req, stop_saw>>
    /\ UNCHANGED <<speedtest_last, start_pc, task_pc, last, stop_emits>>
    /\ UNCHANGED <<speedVars, outsideCmd>>

\* command/speedtest.rs:79-94: aborted is true: speedtest:done with result Canceled
\* is emitted if a last setting was read
stop_speedtest_notify ==
    /\ stop_pc = "notify"
    /\ stop_pc' = "idle"
    /\ IF last = "some"
       THEN /\ st_events' = Append(st_events, StEv("speedtest:done", "Canceled", 0, 0))
            /\ stop_emits' = stop_emits + 1
       ELSE UNCHANGED <<st_events, stop_emits>>
    /\ UNCHANGED <<speedtest_task, speedtest_last, start_pc, task_pc, abort_req, last,
                   stop_saw>>
    /\ UNCHANGED <<st_pc, engineLocals, outsideCmd>>

InitCmd ==
    /\ speedtest_task = "none"
    /\ speedtest_last = "none"
    /\ start_pc = "idle"
    /\ task_pc = "none"
    /\ abort_req = FALSE
    /\ stop_pc = "idle"
    /\ last = "none"
    /\ stop_saw = "none"
    /\ stop_emits = 0

\* the steps of the engine inside the spawned task
EngineStep ==
    \/ time_passes
    \/ dl_tick
    \/ \E len \in 1..CHUNK_SIZE : dl_chunk(len)
    \/ dl_stream_error
    \/ dl_stream_end
    \/ up_body_next
    \/ \E outcome \in {"ok", "bad_status", "transport_error", "join_error"} : req_finishes(outcome)
    \/ up_tick
    \/ up_req_ok
    \/ up_req_error
    \/ up_req_join_error

NextCmd ==
    \/ start_speedtest_begin
    \/ start_speedtest_spawn
    \/ start_speedtest_store
    \/ task_run
    \/ task_run_fails
    \/ EngineStep
    \/ task_after_run
    \/ task_clear_handle
    \/ task_aborted
    \/ stop_speedtest_begin
    \/ stop_speedtest_take
    \/ stop_speedtest_notify

(***************************************************************************)
(* Speedtest commands called concurrently: command/speedtest.rs            *)
(*                                                                         *)
(* Each caller runs one command, start_speedtest or stop_speedtest, on the *)
(* multi-thread runtime; the commands and the spawned tasks interleave     *)
(* statement by statement. The run inside a task is one step here. The     *)
(* guard of speedtest_task taken at line 19 is held until line 25; every   *)
(* other use of that Mutex is a single statement.                          *)
(***************************************************************************)
Callers == 1..NumCallers

\* SpeedtestSetting: the direction and target_bytes a run is started with
Settings == [direction : Directions, target_bytes : {1, MaxBytes}]

\* no setting: speedtest_last is None
NoSetting == [direction |-> "none", target_bytes |-> 0]

IdleCall == [pc |-> "idle", op |-> "none", setting |-> NoSetting, last |-> NoSetting, took |-> 0]

\* a start_speedtest holds the guard `h` of speedtest_task (lines 19-25)
TaskLocked == \E c \in Callers : calls[c].pc = "set_last"

\* command/speedtest.rs:19-22: lock speedtest_task; a handle that is held is taken
\* and aborted
start_take(c, s) ==
    /\ calls[c].pc = "idle"
    /\ ~TaskLocked
    /\ calls' = [calls EXCEPT ![c] = [@ EXCEPT !.pc = "set_last", !.op = "start", !.setting = s]]
    /\ abort_called' = IF task_slot # 0 THEN abort_called \cup {task_slot} ELSE abort_called
    /\ task_slot' = 0
    /\ UNCHANGED <<recorded, spawned, canceled>>
    /\ UNCHANGED outsideCalls

\* command/speedtest.rs:23-25: the setting is recorded, both guards are dropped
start_set_last(c) ==
    /\ calls[c].pc = "set_last"
    /\ recorded' = calls[c].setting
    /\ calls' = [calls EXCEPT ![c].pc = "spawn"]
    /\ UNCHANGED <<task_slot, spawned, abort_called, canceled>>
    /\ UNCHANGED outsideCalls

\* command/speedtest.rs:33-52: the task is spawned and starts its run
start_spawn(c) ==
    /\ calls[c].pc = "spawn"
    /\ spawned' = [spawned EXCEPT ![c] = "running"]
    /\ calls' = [calls EXCEPT ![c].pc = "store"]
    /\ UNCHANGED <<task_slot, recorded, abort_called, canceled>>
    /\ UNCHANGED outsideCalls

\* command/speedtest.rs:54-59: the handle is stored over whatever the slot holds
start_store(c) ==
    /\ calls[c].pc = "store"
    /\ ~TaskLocked
    /\ task_slot' = c
    /\ calls' = [calls EXCEPT ![c].pc = "returned"]
    /\ UNCHANGED <<recorded, spawned, abort_called, canceled>>
    /\ UNCHANGED outsideCalls

\* command/speedtest.rs:67: stop_speedtest clones speedtest_last
stop_read_last(c) ==
    /\ calls[c].pc = "idle"
    /\ calls' = [calls EXCEPT ![c] = [@ EXCEPT !.pc = "take", !.op = "stop", !.last = recorded]]
    /\ UNCHANGED <<task_slot, recorded, spawned, abort_called, canceled>>
    /\ UNCHANGED outsideCalls

\* command/speedtest.rs:69-77: a handle that is held is taken and aborted
stop_take(c) ==
    /\ calls[c].pc = "take"
    /\ ~TaskLocked
    /\ calls' = [calls EXCEPT ![c] = [@ EXCEPT !.pc = "notify", !.took = task_slot]]
    /\ abort_called' = IF task_slot # 0 THEN abort_called \cup {task_slot} ELSE abort_called
    /\ task_slot' = 0
    /\ UNCHANGED <<recorded, spawned, canceled>>
    /\ UNCHANGED outsideCalls

\* command/speedtest.rs:80-94: when a handle was aborted and a setting was read,
\* speedtest:done with result Canceled is emitted with that setting
stop_notify(c) ==
    /\ calls[c].pc = "notify"
    /\ canceled' = IF calls[c].took # 0 /\ calls[c].last # NoSetting
                   THEN Append(canceled, [setting |-> calls[c].last, task |-> calls[c].took])
                   ELSE canceled
    /\ calls' = [calls EXCEPT ![c].pc = "returned"]
    /\ UNCHANGED <<task_slot, recorded, spawned, abort_called>>
    /\ UNCHANGED outsideCalls

\* command/speedtest.rs:34-47: run_speedtest returns inside the task of caller c
spawned_run_ends(c) ==
    /\ spawned[c] = "running"
    /\ spawned' = [spawned EXCEPT ![c] = "clearing"]
    /\ UNCHANGED <<task_slot, recorded, calls, abort_called, canceled>>
    /\ UNCHANGED outsideCalls

\* command/speedtest.rs:49-51: the task sets speedtest_task to None and ends
spawned_clear(c) ==
    /\ spawned[c] = "clearing"
    /\ ~TaskLocked
    /\ task_slot' = 0
    /\ spawned' = [spawned EXCEPT ![c] = "finished"]
    /\ UNCHANGED <<recorded, calls, abort_called, canceled>>
    /\ UNCHANGED outsideCalls

\* JoinHandle::abort takes effect at an await of the task: inside run_speedtest, or at
\* the lock of line 50 after the run has returned
spawned_aborted(c) ==
    /\ c \in abort_called
    /\ spawned[c] \in {"running", "clearing"}
    /\ spawned' = [spawned EXCEPT ![c] = IF @ = "running" THEN "aborted" ELSE "aborted_after_run"]
    /\ UNCHANGED <<task_slot, recorded, calls, abort_called, canceled>>
    /\ UNCHANGED outsideCalls

InitCalls ==
    /\ task_slot = 0
    /\ recorded = NoSetting
    /\ calls = [c \in Callers |-> IdleCall]
    /\ spawned = [c \in Callers |-> "none"]
    /\ abort_called = {}
    /\ canceled = <<>>

NextCalls ==
    \/ \E c \in Callers, s \in Settings : start_take(c, s)
    \/ \E c \in Callers : start_set_last(c)
    \/ \E c \in Callers : start_spawn(c)
    \/ \E c \in Callers : start_store(c)
    \/ \E c \in Callers : stop_read_last(c)
    \/ \E c \in Callers : stop_take(c)
    \/ \E c \in Callers : stop_notify(c)
    \/ \E c \in Callers : spawned_run_ends(c)
    \/ \E c \in Callers : spawned_clear(c)
    \/ \E c \in Callers : spawned_aborted(c)

(***************************************************************************)
(* Operation registry, statement by statement: operation.rs called from    *)
(* several threads. Each call locks the Mutex of OPS for its whole body.   *)
(***************************************************************************)
Threads == 1..NumThreads

\* the classes the threads call start_op and cancel_op with
ThreadClasses == {OP_PING, OP_TRACEROUTE}

IdleThread == [pc |-> "idle", op |-> "none", key |-> "none", old |-> NoToken, tok |-> NoToken]

\* a thread calls start_op(key) or cancel_op(key)
th_call(t) ==
    /\ th[t].pc = "idle"
    /\ nCalls < MaxCalls
    /\ nCalls' = nCalls + 1
    /\ \E op \in {"start_op", "cancel_op"}, key \in ThreadClasses :
         th' = [th EXCEPT ![t] = [IdleThread EXCEPT !.pc = "lock", !.op = op, !.key = key]]
    /\ UNCHANGED <<mutex, returned, ops, cancelledTokens, issued, lastCall>>
    /\ UNCHANGED outsideThreads

\* lock() that does not wait for the Mutex to be free
th_lock_no_wait(t) ==
    /\ th[t].pc = "lock"
    /\ mutex' = t
    /\ th' = [th EXCEPT ![t].pc = "remove"]
    /\ UNCHANGED <<returned, regVars>>
    /\ UNCHANGED outsideThreads

\* operation.rs:20 and 32: ops().lock()
th_lock(t) ==
    /\ th[t].pc = "lock"
    /\ mutex = 0
    /\ mutex' = t
    /\ th' = [th EXCEPT ![t].pc = "remove"]
    /\ UNCHANGED <<returned, regVars>>
    /\ UNCHANGED outsideThreads

\* operation.rs:22 and 33: map.remove(key)
th_remove(t) ==
    /\ th[t].pc = "remove"
    /\ ops' = MapRemove(ops, th[t].key)
    /\ th' = [th EXCEPT ![t].old = MapGet(ops, th[t].key),
                        ![t].pc = IF MapGet(ops, th[t].key) # NoToken THEN "cancel"
                                  ELSE IF th[t].op = "start_op" THEN "insert" ELSE "return"]
    /\ UNCHANGED <<mutex, returned, cancelledTokens, issued, lastCall, nCalls>>
    /\ UNCHANGED outsideThreads

\* operation.rs:23 and 34: the removed token is cancelled
th_cancel(t) ==
    /\ th[t].pc = "cancel"
    /\ cancelledTokens' = cancelledTokens \cup {th[t].old}
    /\ th' = [th EXCEPT ![t].pc = IF th[t].op = "start_op" THEN "insert" ELSE "return"]
    /\ UNCHANGED <<mutex, returned, ops, issued, lastCall, nCalls>>
    /\ UNCHANGED outsideThreads

\* operation.rs:26-27: a new token is made and inserted
th_insert(t) ==
    /\ th[t].pc = "insert"
    /\ issued' = Append(issued, th[t].key)
    /\ ops' = MapInsert(ops, th[t].key, Len(issued) + 1)
    /\ th' = [th EXCEPT ![t].tok = Len(issued) + 1, ![t].pc = "return"]
    /\ UNCHANGED <<mutex, returned, cancelledTokens, lastCall, nCalls>>
    /\ UNCHANGED outsideThreads

\* operation.rs:28-29 and 35-39: the guard is dropped and the call returns
th_return(t) ==
    /\ th[t].pc = "return"
    /\ mutex' = IF mutex = t THEN 0 ELSE mutex
    /\ returned' = IF th[t].op = "start_op" THEN returned \cup {th[t].tok} ELSE returned
    /\ th' = [th EXCEPT ![t] = IdleThread]
    /\ UNCHANGED regVars
    /\ UNCHANGED outsideThreads

InitThreads ==
    /\ mutex = 0
    /\ th = [t \in Threads |-> IdleThread]
    /\ returned = {}

NextThreads ==
    \/ \E t \in Threads : th_call(t)
    \/ \E t \in Threads : th_lock(t)
    \/ \E t \in Threads : th_remove(t)
    \/ \E t \in Threads : th_cancel(t)
    \/ \E t \in Threads : th_insert(t)
    \/ \E t \in Threads : th_return(t)

(***************************************************************************)
(* Latency measurement: net/latency.rs, one run of measure_latency_jitter  *)
(***************************************************************************)
\* latency.rs:33-40: the client is built, rtts is empty
measure_latency_jitter ==
    /\ lat_pc = "idle"
    /\ \E n \in 0..MaxSamples : samples' = n
    /\ \E build \in {"Ok", "Err"} :
         IF build = "Ok"
         THEN lat_pc' = "loop" /\ UNCHANGED lat_ret
         ELSE lat_pc' = "returned" /\ lat_ret' = "err"
    /\ UNCHANGED <<lat_i, rtts, lat_events>>
    /\ UNCHANGED outsideLat

\* the request was answered but its rtt is not pushed to rtts
lat_request_ok_no_push(elapsed) ==
    /\ lat_pc = "loop"
    /\ lat_i < samples
    /\ lat_events' = Append(lat_events, [topic |-> "latency:update", sample |-> lat_i + 1,
                                         total |-> samples, rtt_ms |-> elapsed])
    /\ lat_pc' = "sleep"
    /\ UNCHANGED <<samples, lat_i, rtts, lat_ret>>
    /\ UNCHANGED outsideLat

\* latency.rs:42-59: request i is answered after elapsed ms: the rtt is pushed and
\* latency:update is emitted
lat_request_ok(elapsed) ==
    /\ lat_pc = "loop"
    /\ lat_i < samples
    /\ rtts' = Append(rtts, elapsed)
    /\ lat_events' = Append(lat_events, [topic |-> "latency:update", sample |-> lat_i + 1,
                                         total |-> samples, rtt_ms |-> elapsed])
    /\ lat_pc' = "sleep"
    /\ UNCHANGED <<samples, lat_i, lat_ret>>
    /\ UNCHANGED outsideLat

\* latency.rs:44: the request fails and `?` returns the error
lat_request_err ==
    /\ lat_pc = "loop"
    /\ lat_i < samples
    /\ lat_pc' = "returned"
    /\ lat_ret' = "err"
    /\ UNCHANGED <<samples, lat_i, rtts, lat_events>>
    /\ UNCHANGED outsideLat

\* latency.rs:61-62: the sleep ends, the loop goes to its next index
lat_sleep ==
    /\ lat_pc = "sleep"
    /\ lat_i' = lat_i + 1
    /\ lat_pc' = "loop"
    /\ UNCHANGED <<samples, rtts, lat_events, lat_ret>>
    /\ UNCHANGED outsideLat

\* latency.rs:64-74: after the loop latency:done is emitted with the rtts
lat_done ==
    /\ lat_pc = "loop"
    /\ lat_i >= samples
    /\ lat_events' = Append(lat_events, [topic |-> "latency:done", samples |-> rtts])
    /\ lat_pc' = "returned"
    /\ lat_ret' = "ok"
    /\ UNCHANGED <<samples, lat_i, rtts>>
    /\ UNCHANGED outsideLat

InitLat ==
    /\ lat_pc = "idle"
    /\ samples = 0
    /\ lat_i = 0
    /\ rtts = <<>>
    /\ lat_events = <<>>
    /\ lat_ret = "none"

NextLat ==
    \/ measure_latency_jitter
    \/ \E elapsed \in 1..MaxLatency : lat_request_ok(elapsed)
    \/ lat_request_err
    \/ lat_sleep
    \/ lat_done

(***************************************************************************)
(* Ping and traceroute commands: command/ping.rs, command/trace.rs, with   *)
(* the Windows build of the UDP probes (probe/*/udp/windows.rs)            *)
(***************************************************************************)
PingProtocol == {"Icmp", "Tcp", "Udp", "Quic", "Http"}

TraceProtocol == {"Icmp", "Udp"}

\* what netdev::get_default_interface() gives: no interface, or one with these addresses
Interfaces == {"none", "v4", "v6", "v4v6"}

\* ping.rs:12-33, trace.rs:23-44: the `?` of the interface lookup returns Err
LookupFails(iface, family) ==
    \/ iface = "none"
    \/ family = 4 /\ iface = "v6"
    \/ family = 6 /\ iface = "v4"

\* the outcomes of the probe a task runs; the UDP probes of the Windows build
\* (udp/windows.rs:19-21) only return Err
ProbeResults(protocol) == IF protocol = "Udp" THEN {"Err"} ELSE {"Ok", "Err"}

\* the greatest max_hops a caller asks for (0 stands for "not given")
MaxHops == 1

\* the greatest tries_per_hop a caller asks for (0 stands for "not given")
MaxTries == 1

\* trace.rs:13: max_hops when the caller gave 0
DEFAULT_MAX_HOPS == 30

\* trace.rs:16: tries_per_hop when the caller gave 0
DEFAULT_TRIES_PER_HOP == 1

\* the fields of TracerouteSetting that sanitize_setting looks at: each not given (0) or
\* given
TracerouteSettings == [max_hops : {0, MaxHops}, tries_per_hop : {0, MaxTries}]

\* PingSetting has neither field
NoHops == [max_hops |-> 0, tries_per_hop |-> 0]

\* a sanitize_setting that gives the setting back as it came
sanitize_setting_identity(raw) == raw

\* trace.rs:11-19
sanitize_setting(raw) ==
    [max_hops |-> IF raw.max_hops = 0 THEN DEFAULT_MAX_HOPS ELSE raw.max_hops,
     tries_per_hop |-> IF raw.tries_per_hop = 0 THEN DEFAULT_TRIES_PER_HOP
                       ELSE raw.tries_per_hop]

\* an event of the ping or traceroute command: run_id is a history tag on the events
\* whose payload has none (traceroute:done)
CmdEv(topic, run_id, sanitized, hops, reached) ==
    [topic |-> topic, run_id |-> run_id, setting |-> sanitized, hops |-> hops, reached |-> reached]

\* ping.rs:11-77 and trace.rs:22-95: the command for key (OP_PING or OP_TRACEROUTE),
\* called with the setting raw
probe_command(key, iface, family, protocol, raw) ==
    /\ cmd_req.n < MaxProbeCalls
    /\ cmd_req' = [n |-> cmd_req.n + 1, key |-> key, protocol |-> protocol,
                   lookup_failed |-> LookupFails(iface, family), setting |-> raw]
    /\ IF LookupFails(iface, family)
       THEN /\ cmd_ret' = "err"
            /\ UNCHANGED <<regVars, cmd_events, cmd_tasks>>
       ELSE LET sanitized == IF key = OP_TRACEROUTE THEN sanitize_setting(raw) ELSE raw
                run_id == Len(issued) + 1 IN
            /\ start_op(key)
            /\ cmd_events' = Append(cmd_events, CmdEv(key \o ":start", run_id, sanitized, 0, FALSE))
            /\ cmd_tasks' = cmd_tasks \cup {[key |-> key, run_id |-> run_id, protocol |-> protocol,
                                             setting |-> sanitized, res |-> "none", reached |-> FALSE]}
            /\ cmd_ret' = "ok"
    /\ UNCHANGED <<scanVars, nbVars, speedVars, cmdVars, callVars, latVars, thVars>>

ping == \E iface \in Interfaces, family \in {4, 6}, protocol \in PingProtocol :
            probe_command(OP_PING, iface, family, protocol, NoHops)

traceroute == \E iface \in Interfaces, family \in {4, 6}, protocol \in TraceProtocol,
                 raw \in TracerouteSettings :
                  probe_command(OP_TRACEROUTE, iface, family, protocol, raw)

\* a task that takes the entry of its class out of the registry when its probe returns
probe_task_ends_removes_entry ==
    \E t \in cmd_tasks, res \in {"Ok", "Err"}, reached \in BOOLEAN :
        /\ t.res = "none"
        /\ res \in ProbeResults(t.protocol)
        /\ reached => (res = "Ok" /\ t.key = OP_TRACEROUTE)
        /\ cmd_tasks' = (cmd_tasks \ {t}) \cup {[t EXCEPT !.res = res, !.reached = reached]}
        /\ cmd_events' =
             IF res = "Err"
             THEN Append(cmd_events, CmdEv(t.key \o ":error", t.run_id, NoHops, 0, FALSE))
             ELSE IF t.key = OP_TRACEROUTE
                  THEN Append(cmd_events, CmdEv("traceroute:done", t.run_id, NoHops,
                                                t.setting.max_hops, reached))
                  ELSE cmd_events
        /\ ops' = MapRemove(ops, t.key)
        /\ UNCHANGED <<cmd_req, cmd_ret, cancelledTokens, issued, lastCall, nCalls, scanVars, nbVars, speedVars, cmdVars, callVars, latVars, thVars>>

\* ping.rs:46-74 and trace.rs:60-92: the probe of a spawned task returns res (with
\* reached, for an Ok of a traceroute) and the task emits what the match says
probe_task_ends ==
    \E t \in cmd_tasks, res \in {"Ok", "Err"}, reached \in BOOLEAN :
        /\ t.res = "none"
        /\ res \in ProbeResults(t.protocol)
        /\ reached => (res = "Ok" /\ t.key = OP_TRACEROUTE)
        /\ cmd_tasks' = (cmd_tasks \ {t}) \cup {[t EXCEPT !.res = res, !.reached = reached]}
        /\ cmd_events' =
             IF res = "Err"
             THEN Append(cmd_events, CmdEv(t.key \o ":error", t.run_id, NoHops, 0, FALSE))
             ELSE IF t.key = OP_TRACEROUTE
                  THEN Append(cmd_events, CmdEv("traceroute:done", t.run_id, NoHops,
                                                t.setting.max_hops, reached))
                  ELSE cmd_events
        /\ UNCHANGED <<cmd_req, cmd_ret, regVars, scanVars, nbVars, speedVars, cmdVars, callVars, latVars, thVars>>

\* ping.rs:79-82
cancel_ping == cancel_op(OP_PING) /\ UNCHANGED <<outsideReg>>

\* trace.rs:97-100
cancel_traceroute == cancel_op(OP_TRACEROUTE) /\ UNCHANGED <<outsideReg>>

InitProbe ==
    /\ cmd_req = [n |-> 0, key |-> "none", protocol |-> "none", lookup_failed |-> FALSE,
                  setting |-> NoHops]
    /\ cmd_ret = "none"
    /\ cmd_events = <<>>
    /\ cmd_tasks = {}

NextProbe ==
    \/ ping
    \/ traceroute
    \/ probe_task_ends
    \/ cancel_ping
    \/ cancel_traceroute

WorkerStep ==
    \/ \E ip \in IPs : w_spawn(ip)
    \/ \E ip \in IPs : w_head(ip)
    \/ \E ip \in IPs : w_send_cancelled(ip)
    \/ \E ip \in IPs : w_send_ok(ip)
    \/ \E ip \in IPs : w_send_err(ip)
    \/ \E ip \in IPs : w_wait_cancelled(ip)
    \/ \E ip \in IPs : w_wait_reply(ip)
    \/ \E ip \in IPs : w_wait_timeout(ip)

HostScanStep ==
    \/ hs_begin
    \/ hs_resolve
    \/ hs_sockets_ok
    \/ hs_sockets_err
    \/ WorkerStep
    \/ hs_collect_cancelled
    \/ hs_stream_end

NextScan ==
    \/ host_scan_command
    \/ HostScanStep
    \/ \E ip \in IPs : recv_reply(ip)
    \/ \E ip \in IPs : recv_other(ip)
    \/ scan_cancel_op
    \/ scan_replace_op

(***************************************************************************)
(* Neighbor scan: probe/scan/neigh.rs. It runs host_scan with its own      *)
(* token; its events go to the same event history.                         *)
(***************************************************************************)
\* the entry-point of a neighbor scan: registers the job under OP_NEIGHBORSCAN and
\* calls neighbor_scan with the token; the setting is neighbor_scan_default(&iface)
neighbor_scan_command ==
    /\ nb_pc = "idle"
    /\ hs_pc = "idle"
    /\ start_op(OP_NEIGHBORSCAN)
    /\ token' = Len(issued) + 1
    /\ \E c \in 0..MaxCount, n \in 1..Cardinality(IPs) : setting' = [count |-> c, concurrency |-> n]
    /\ nb_pc' = "start"
    /\ UNCHANGED <<hs_pc, target_map, total, sockets, pending, chan, wk,
                   progress, events, alive, unreachable, hs_ret, answered, nb_ret>>
    /\ UNCHANGED <<speedVars, cmdVars, callVars, probeVars, latVars, thVars>>

\* neigh.rs:18-48: neighborscan:start and hostscan:start are emitted, host_scan is called
nb_begin ==
    /\ nb_pc = "start"
    /\ events' = events \o <<Ev("neighborscan:start", 0, 0), Ev("hostscan:start", 0, 0)>>
    /\ hs_pc' = "start"
    /\ nb_pc' = "host_scan"
    /\ UNCHANGED <<token, setting, target_map, total, sockets, pending, chan, wk,
                   progress, alive, unreachable, hs_ret, nb_ret>>
    /\ UNCHANGED outsideNeigh

\* neigh.rs:49-80: host_scan has returned
nb_host_scan_returned ==
    /\ nb_pc = "host_scan"
    /\ hs_pc = "returned"
    /\ IF hs_ret # "ok"
       THEN /\ events' = Append(events, Ev(IF is_cancelled(token)
                                           THEN "neighborscan:cancelled"
                                           ELSE "neighborscan:error", 0, 0))
            /\ nb_ret' = hs_ret
            /\ nb_pc' = "returned"
       ELSE IF is_cancelled(token)
            THEN /\ events' = Append(events, Ev("neighborscan:cancelled", 0, 0))
                 /\ nb_ret' = "err_cancelled"
                 /\ nb_pc' = "returned"
            ELSE /\ nb_pc' = "enrich"
                 /\ UNCHANGED <<events, nb_ret>>
    /\ UNCHANGED <<hs_pc, token, setting, target_map, total, sockets, pending, chan, wk,
                   progress, alive, unreachable, hs_ret>>
    /\ UNCHANGED outsideNeigh

\* neigh.rs:82-129: the neighbor table is read (`?` returns its error), the alive
\* hosts are enriched and neighborscan:done is emitted
nb_enrich ==
    /\ nb_pc = "enrich"
    /\ \E table_read \in {"Ok", "Err"} :
         IF table_read = "Err"
         THEN /\ nb_ret' = "err_neigh_table"
              /\ UNCHANGED events
         ELSE /\ nb_ret' = "ok"
              /\ events' = Append(events, Ev("neighborscan:done", 0, total))
    /\ nb_pc' = "returned"
    /\ UNCHANGED <<hs_pc, token, setting, target_map, total, sockets, pending, chan, wk,
                   progress, alive, unreachable, hs_ret>>
    /\ UNCHANGED outsideNeigh

\* a caller cancels the running neighbor scan: cancel_op(OP_NEIGHBORSCAN)
nb_cancel_op ==
    /\ nb_pc \notin {"idle", "returned"}
    /\ ~is_cancelled(token)
    /\ cancel_op(OP_NEIGHBORSCAN)
    /\ UNCHANGED outsideReg

InitNeigh ==
    /\ nb_pc = "idle"
    /\ nb_ret = "none"

NextNeigh ==
    \/ neighbor_scan_command
    \/ nb_begin
    \/ HostScanStep
    \/ \E ip \in IPs : recv_reply(ip)
    \/ \E ip \in IPs : recv_other(ip)
    \/ nb_host_scan_returned
    \/ nb_enrich
    \/ nb_cancel_op

Init ==
    /\ InitReg /\ InitScan /\ InitSpeed /\ InitCmd /\ InitCalls /\ InitProbe /\ InitNeigh
    /\ InitLat /\ InitThreads

SpecScan == Init /\ [][NextScan]_vars

SpecNeigh == Init /\ [][NextNeigh]_vars

SpecSpeed == Init /\ [][NextSpeed]_vars

SpecCmd == Init /\ [][NextCmd]_vars

SpecCalls == Init /\ [][NextCalls]_vars

SpecProbe == Init /\ [][NextProbe]_vars

SpecLat == Init /\ [][NextLat]_vars

SpecThreads == Init /\ [][NextThreads]_vars

\* the task of host_scan is polled as long as it can make progress
FairSpecScan == SpecScan /\ WF_vars(HostScanStep)

(***************************************************************************)
(* Claims on the host scan (specifications SpecScan and FairSpecScan)      *)
(***************************************************************************)
Last(seq) == seq[Len(seq)]

\* the positions of the events of the given topics
EventsOf(topics) == {i \in 1..Len(events) : events[i].topic \in topics}

TerminalTopics == {"hostscan:done", "hostscan:cancelled", "hostscan:error"}

SampleTopics == {"hostscan:alive", "hostscan:progress"}

\* the IPs of a list of (host, rtt) pairs
AliveIPs == {alive[i][1] : i \in 1..Len(alive)}

UnreachableIPs == {unreachable[i] : i \in 1..Len(unreachable)}

\* C3: hostscan:start is the first event of a run, every hostscan:alive and
\* hostscan:progress comes after it and before the terminal event, and a run that
\* has returned has emitted exactly one terminal event (done, cancelled or an
\* error event), on every path, socket-creation failure included.
C3_ExactlyOneTerminalEvent ==
    /\ events # <<>> => events[1].topic = "hostscan:start"
    /\ Cardinality(EventsOf({"hostscan:start"})) <= 1
    /\ Cardinality(EventsOf(TerminalTopics)) <= 1
    /\ \A i \in EventsOf(TerminalTopics) : i = Len(events)
    /\ hs_pc = "returned" => Cardinality(EventsOf(TerminalTopics)) = 1

\* C4: when the token is cancelled before the run emits its terminal event, the
\* run ends with hostscan:cancelled and an error return, never with hostscan:done
\* (also for an empty target set).
C4_CancelledNeverDone ==
    [][(hs_pc # "returned" /\ hs_pc' = "returned" /\ is_cancelled(token))
          => /\ Len(events') = Len(events) + 1
             /\ Last(events').topic = "hostscan:cancelled"
             /\ hs_ret' = "err_cancelled"
      ]_vars

\* C5: once the token of a host scan in its fan-out/collection phase is cancelled
\* (by cancel_op or by a replacing start_op), the run eventually emits
\* hostscan:cancelled and returns.
C5_CancelLeadsToCancelled ==
    (hs_pc = "collect" /\ is_cancelled(token))
        ~> (hs_pc = "returned" /\ Last(events).topic = "hostscan:cancelled"
                               /\ hs_ret = "err_cancelled")

\* witness of C5: the run was cancelled while workers were in progress, and
\* returned with hostscan:cancelled without waiting for them
C5_Witness ==
    /\ hs_pc = "returned"
    /\ Last(events).topic = "hostscan:cancelled"
    /\ \E ip \in IPs : wk[ip].pc = "dropped"
    /\ \E ip \in IPs : wk[ip].pc = "idle" /\ ip \in target_map

\* C6: on a completion that was not cancelled, total is the number of unique
\* resolved IPs, and every such IP is exactly once in exactly one of alive and
\* unreachable, so |alive| + |unreachable| = total.
C6_ReportPartitionsTargets ==
    hs_ret = "ok" =>
        /\ total = Cardinality(target_map)
        /\ AliveIPs \cup UnreachableIPs = target_map
        /\ AliveIPs \cap UnreachableIPs = {}
        /\ Len(alive) = Cardinality(AliveIPs)
        /\ Len(unreachable) = Cardinality(UnreachableIPs)
        /\ Len(alive) + Len(unreachable) = total

\* witness of C6: a completed run over two IPs, one alive and one unreachable
C6_Witness ==
    /\ hs_ret = "ok"
    /\ total = 2
    /\ Len(alive) = 1
    /\ Len(unreachable) = 1
    /\ Last(events).topic = "hostscan:done"

\* C7: every IP of the alive list is in at most one hostscan:alive event of the run.
C7_AtMostOneAliveSample ==
    \A ip \in IPs :
        Cardinality({i \in EventsOf({"hostscan:alive"}) : events[i].ip = ip}) <= 1

\* witness of C7: two alive hosts, one of them after more than one try
C7_Witness ==
    /\ hs_ret = "ok"
    /\ AliveIPs = {1, 2}
    /\ \E ip \in IPs : Len(wk[ip].tries) >= 2
    /\ \A ip \in IPs :
         Cardinality({i \in EventsOf({"hostscan:alive"}) : events[i].ip = ip}) = 1

\* the round-trip times of the tries that got a reply (0: timeout, -1: send error)
ReplyRtts(tries) == {tries[i] : i \in {j \in 1..Len(tries) : tries[j] > 0}}

MinOf(S) == CHOOSE x \in S : \A y \in S : x <= y

\* C8: with count = 3, a target whose try 1 times out and whose try 2 is answered
\* is classified Alive, and the rtt reported for it is the minimum rtt of the tries
\* that got a reply.
C8_ReplyOnSecondTry ==
    \A ip \in IPs :
        (/\ setting.count = 3
         /\ wk[ip].pc = "some"
         /\ Len(wk[ip].tries) >= 2
         /\ wk[ip].tries[1] = 0
         /\ wk[ip].tries[2] > 0)
        => /\ wk[ip].state = "Alive"
           /\ wk[ip].best_rtt = MinOf(ReplyRtts(wk[ip].tries))
           /\ \E i \in 1..Len(alive) : alive[i] = <<ip, MinOf(ReplyRtts(wk[ip].tries))>>
           /\ ip \notin UnreachableIPs

\* witness of C8: count = 3, try 1 timed out, try 2 was answered
C8_Witness ==
    \E ip \in IPs :
        /\ setting.count = 3
        /\ wk[ip].pc = "some"
        /\ wk[ip].tries = <<0, MaxRtt>>
        /\ wk[ip].state = "Alive"

\* C9: the done values of the hostscan:progress and hostscan:alive events are
\* non-decreasing in emission order and never exceed total; a worker advances the
\* counter once, when it produces its sample, and never again.
C9_ProgressMonotonic ==
    /\ \A i, j \in EventsOf(SampleTopics) : i < j => events[i].done <= events[j].done
    /\ \A i \in EventsOf(SampleTopics) : events[i].done >= 1 /\ events[i].done <= total
    /\ progress <= total
    /\ \A ip \in IPs :
         /\ wk[ip].adv <= 1
         /\ wk[ip].pc = "some" <=> wk[ip].adv = 1
    /\ progress = Cardinality({ip \in IPs : wk[ip].pc = "some"})

\* witness of C9: two progress events with different done values and an alive sample
C9_Witness ==
    /\ Cardinality(EventsOf({"hostscan:progress"})) = 2
    /\ Cardinality(EventsOf({"hostscan:alive"})) >= 1
    /\ progress = 2
    /\ total = 2


StartOp == (\E key \in Classes : start_op(key)) /\ UNCHANGED outsideReg

CancelOp == (\E key \in Classes : cancel_op(key)) /\ UNCHANGED outsideReg

Next ==
    \/ StartOp
    \/ CancelOp

Spec == Init /\ [][Next]_vars

(***************************************************************************)
(* Claims on the throughput engine (specification SpecSpeed)               *)
(***************************************************************************)
\* the positions of the speedtest:done events
DoneEvents == {i \in 1..Len(st_events) : st_events[i].topic = "speedtest:done"}

\* C10: for download and upload, the speedtest:done of the engine has result Full
\* if and only if the byte count reached target_bytes before the elapsed time
\* reached max_duration; a Full result never carries fewer bytes than target_bytes,
\* also when the download stream ends early or the upload request completes early.
C10_FullIffTargetReachedInTime ==
    \A i \in DoneEvents :
        /\ st_events[i].result = "Full"
              <=> (reached_at # -1 /\ reached_at < max_duration)
        /\ st_events[i].result = "Full"
              => st_events[i].transferred_bytes >= target_bytes

\* C11: for download and upload, the speedtest:done of the engine has result
\* Timeout if and only if the elapsed time reached max_duration before the byte
\* count reached target_bytes; a Timeout result never carries target_bytes or more.
C11_TimeoutIffDeadlineBeforeTarget ==
    \A i \in DoneEvents :
        /\ st_events[i].result = "Timeout"
              <=> /\ st_events[i].elapsed_ms >= max_duration
                  /\ (reached_at = -1 \/ reached_at >= max_duration)
        /\ st_events[i].result = "Timeout"
              => st_events[i].transferred_bytes < target_bytes

\* C20: a worker sends at most count probes to its target (count >= 1), one per
\* seq in 1..=count in increasing order, and none after the first reply; its target
\* is classified Alive iff some try received a reply, and Unreachable only after
\* all count tries ended in a timeout or a send error.
C20_TriesAndClassification ==
    \A ip \in IPs :
        LET w == wk[ip]
            replied == \E i \in 1..Len(w.tries) : w.tries[i] > 0
        IN /\ Len(w.tries) <= cnt
           /\ setting.count >= 1 => ProbesSent(ip) <= setting.count
           /\ w.pc \in {"head", "send", "wait"} =>
                 /\ w.seq = Len(w.tries) + 1
                 /\ w.seq <= cnt
                 /\ ~replied
           /\ \A i \in 1..Len(w.tries) : w.tries[i] > 0 => i = Len(w.tries)
           /\ w.pc = "some" =>
                 /\ w.state = "Alive" <=> replied
                 /\ w.state = "Unreachable" <=> ~replied
                 /\ w.state = "Unreachable" =>
                       /\ Len(w.tries) = cnt
                       /\ \A i \in 1..cnt : w.tries[i] \in {0, -1}

\* witness of C20: with count = 3 one target is Alive after a send error, a timeout
\* and a reply, the other is Unreachable after three tries
C20_Witness ==
    /\ setting.count = 3
    /\ \E ip, other \in IPs :
         /\ wk[ip].pc = "some"
         /\ wk[ip].tries = <<-1, 0, MaxRtt>>
         /\ wk[ip].state = "Alive"
         /\ wk[other].pc = "some"
         /\ wk[other].state = "Unreachable"
         /\ Len(wk[other].tries) = 3

\* the state part of C21: while host_scan runs, a Pending entry belongs to the try in
\* progress of the one worker of its IP
PendingOfTryInProgress ==
    hs_pc = "collect" =>
        \A ip \in IPs :
            pending[ip] # 0 =>
                /\ ip \in ip_list
                /\ wk[ip].pc \in {"send", "wait"}
                /\ pending[ip] = wk[ip].seq

\* the step part of C21: an entry is only inserted for an IP that has none, and it is
\* the entry of the try that follows the tries made so far
InsertsIntoEmptySlot ==
    \A ip \in IPs :
        (pending'[ip] # 0 /\ pending'[ip] # pending[ip]) =>
            /\ pending[ip] = 0
            /\ pending'[ip] = Len(wk[ip].tries) + 1

\* C21: at every moment of a host-scan run a pending map holds at most one Pending
\* entry per target IP and each target has at most one in-flight probe: the entry of
\* try seq + 1 is inserted only after the entry of try seq has been removed, and no
\* two workers use the same key.
C21_OnePendingPerTarget == [](PendingOfTryInProgress) /\ [][InsertsIntoEmptySlot]_vars

\* witness of C21: a worker has inserted the entry of its second try after the first
\* one timed out, while the other worker has an entry of its own
C21_Witness ==
    \E ip, other \in IPs :
        /\ ip # other
        /\ wk[ip].pc = "send"
        /\ wk[ip].tries = <<0>>
        /\ pending[ip] = 2
        /\ pending[other] # 0

\* C22: whenever the receiver fulfils a Pending entry, the reply was elicited by the
\* probe that created that entry, so the rtt is measured from the send time of the
\* probe that was answered; a late reply to try k, arriving after try k timed out,
\* never completes the wait of a later try of the same target.
C22_ReplyAnswersItsProbe ==
    \A ip \in IPs : answered[ip] # 0 => answered[ip] = wk[ip].seq

\* the state part of C23: once the reply of a try has filled its channel, and after
\* the worker took it, the IP has no Pending entry: a second reply finds none
AnsweredHasNoPending ==
    hs_pc = "collect" =>
        \A ip \in IPs :
            (chan[ip] # 0 \/ (wk[ip].pc = "some" /\ wk[ip].state = "Alive")) => pending[ip] = 0

\* a channel is only filled by the removal of the Pending entry of its IP, and that
\* step touches no other entry, no other channel, no worker, no event and no report
FirstReplyFulfils ==
    \A ip \in IPs :
        (chan[ip] = 0 /\ chan'[ip] # 0) =>
            /\ pending[ip] # 0
            /\ pending' = PendingRemove(pending, ip)
            /\ chan'[ip] \in 1..MaxRtt
            /\ \A other \in IPs \ {ip} : chan'[other] = chan[other]
            /\ UNCHANGED <<hs_pc, wk, events, progress, alive, unreachable, hs_ret>>

\* a filled channel is never filled again: it keeps its value until the worker takes it
\* or the channel is dropped
DiscardChangesNothing ==
    \A ip \in IPs :
        chan[ip] # 0 => /\ chan'[ip] \in {chan[ip], 0}
                        /\ answered'[ip] \in {answered[ip], 0}

\* C23: of two echo replies from one source for one probe, the first removes the
\* Pending entry and fulfils the one-shot channel, the second finds no Pending entry
\* and is discarded: no pending map changes, no worker gets anything, no event is
\* emitted. A datagram that is not an echo reply, or whose source has no Pending
\* entry, is discarded in the same way.
C23_SecondReplyDiscarded ==
    [](AnsweredHasNoPending) /\ [][FirstReplyFulfils /\ DiscardChangesNothing]_vars

\* witness of C23: the reply to the try in progress has filled the channel and removed
\* the entry while the worker still waits: a second reply to that try finds no entry
C23_Witness ==
    \E ip \in IPs :
        /\ wk[ip].pc = "wait"
        /\ chan[ip] # 0
        /\ answered[ip] = wk[ip].seq
        /\ pending[ip] = 0

\* C24: on cancellation every worker that has a Pending entry removes it before the
\* worker ends, so that when hostscan:cancelled is emitted no Pending entry remains,
\* under every interleaving of the collect loop's cancellation branch with the workers.
C24_CancelLeavesNoPending ==
    /\ \A ip \in IPs : wk[ip].pc \in {"none", "dropped"} => pending[ip] = 0
    /\ (events # <<>> /\ Last(events).topic = "hostscan:cancelled") =>
           \A ip \in IPs : pending[ip] = 0

\* the workers in progress never outnumber the concurrency bound
FanOutBounded == Cardinality(InFlight) <= setting.concurrency

\* every worker of the run has been started
AllStarted == \A ip \in ip_list : wk[ip].pc # "idle"

\* C25: during the fan-out the number of workers that have started and not yet
\* produced a result never exceeds the concurrency bound, and for a bound of at
\* least 1 every target's worker is eventually started unless the run is cancelled.
C25_FanOutBoundedAndComplete ==
    /\ [](FanOutBounded)
    /\ (hs_pc = "collect" /\ setting.concurrency >= 1) ~> (AllStarted \/ is_cancelled(token))

\* witness of C25: with a bound of 1 and two targets the second worker has been
\* started after the first one produced its result
C25_Witness ==
    \E ip, other \in IPs :
        /\ ip # other
        /\ setting.concurrency = 1
        /\ wk[ip].pc = "some"
        /\ wk[other].pc \in {"head", "send", "wait"}
        /\ ~is_cancelled(token)

\* C26: when the resolved target set is empty the run emits hostscan:done with
\* total = 0 and empty alive and unreachable lists and returns that report as
\* success, without opening a socket, spawning a receiver or sending a probe.
C26_EmptyTargetSetDone ==
    (hs_pc \in {"sockets", "collect", "returned"} /\ target_map = {}) =>
        /\ hs_pc = "returned"
        /\ hs_ret = "ok"
        /\ events = <<Ev("hostscan:start", 0, 0), Ev("hostscan:done", 0, 0)>>
        /\ total = 0
        /\ alive = <<>>
        /\ unreachable = <<>>
        /\ sockets = {}
        /\ answered = [ip \in IPs |-> 0]
        /\ \A ip \in IPs : wk[ip] = NoWorker /\ pending[ip] = 0 /\ chan[ip] = 0

\* witness of C26: a run with an empty target set has returned
C26_Witness ==
    /\ hs_pc = "returned"
    /\ target_map = {}
    /\ hs_ret = "ok"
    /\ Last(events).topic = "hostscan:done"

\* the tries of the worker of ip that all failed to send
AllSendsFailed(ip) ==
    /\ Len(wk[ip].tries) = cnt
    /\ \A i \in 1..cnt : wk[ip].tries[i] = -1

\* some finished worker of the run had a send error
HadSendError ==
    \E ip \in IPs : wk[ip].pc = "some" /\ \E i \in 1..Len(wk[ip].tries) : wk[ip].tries[i] = -1

\* the step part of C27: a send error removes the Pending entry, is recorded and
\* leads to the next seq (or to the classification after the last one); host_scan
\* goes on
SendErrorGoesOn ==
    \A ip \in IPs :
        (wk[ip].pc = "send" /\ wk'[ip].tries = Append(wk[ip].tries, -1)) =>
            /\ pending'[ip] = 0
            /\ wk'[ip].last_err = "send error"
            /\ IF wk[ip].seq < cnt
               THEN wk'[ip].pc = "head" /\ wk'[ip].seq = wk[ip].seq + 1
               ELSE wk'[ip].pc = "some"
            /\ hs_pc' = "collect"
            /\ hs_ret' = "none"
            /\ \A other \in IPs \ {ip} : wk'[other] = wk[other]

\* the state part of C27: a target whose tries all failed to send is reported
\* Unreachable, and a run with send errors that was not cancelled ends with
\* hostscan:done after every target got its result
SendErrorsLeaveJobAlive ==
    /\ \A ip \in IPs :
         (wk[ip].pc = "some" /\ AllSendsFailed(ip)) =>
             /\ wk[ip].state = "Unreachable"
             /\ ip \in UnreachableIPs
    /\ (HadSendError /\ hs_pc = "returned") =>
         /\ hs_ret \in {"ok", "err_cancelled"}
         /\ ~is_cancelled(token) =>
               /\ hs_ret = "ok"
               /\ Last(events).topic = "hostscan:done"
               /\ \A ip \in ip_list : wk[ip].pc = "some"

\* C27: a send error on a probe to one target never fails the host-scan job: the
\* worker removes the Pending entry, records the error and goes on to the next seq;
\* if all count tries fail to send the target is reported Unreachable, all other
\* targets are still probed and the run still ends with hostscan:done.
C27_SendErrorNeverFailsJob ==
    [](SendErrorsLeaveJobAlive) /\ [][SendErrorGoesOn]_vars

\* witness of C27: with count = 2 every send to one target failed and it is reported
\* Unreachable, the other target answered, and the run has ended with hostscan:done
C27_Witness ==
    \E ip, other \in IPs :
        /\ setting.count = 2
        /\ hs_pc = "returned"
        /\ hs_ret = "ok"
        /\ wk[ip].tries = <<-1, -1>>
        /\ wk[ip].state = "Unreachable"
        /\ wk[other].state = "Alive"
        /\ Last(events).topic = "hostscan:done"

(***************************************************************************)
(* Claims on the upload body generator (specification SpecSpeed)           *)
(***************************************************************************)
\* the state part of C30: what was yielded and what remains add up to the target
UploadAccounting ==
    (direction = "upload" /\ st_pc # "idle") =>
        /\ sent + remaining = target_bytes
        /\ remaining >= 0
        /\ sent <= target_bytes

\* the step part of C30: a yield takes min(remaining, CHUNK_SIZE) > 0 while bytes
\* remain and the deadline has not passed; the body ends only when no byte remains
\* or the deadline has passed, and nothing is yielded after its end
UploadYields ==
    /\ sent' # sent =>
          /\ ~body_done /\ ~body_done'
          /\ remaining > 0
          /\ now < max_duration
          /\ sent' - sent = Min(remaining, CHUNK_SIZE)
          /\ sent' - sent > 0
          /\ remaining' = remaining - (sent' - sent)
    /\ (body_done' /\ ~body_done) => (remaining = 0 \/ now >= max_duration)
    /\ body_done => (body_done' /\ sent' = sent /\ remaining' = remaining)

\* C30: in the upload body generator, after every yield sent + remaining =
\* target_bytes, every yielded chunk has size min(remaining, CHUNK_SIZE) > 0 and sent
\* never exceeds target_bytes; the generator ends the body exactly when remaining = 0
\* or elapsed >= max_duration, and yields nothing after that.
C30_UploadBodyAccounting == [](UploadAccounting) /\ [][UploadYields]_vars

\* witness of C30: a target of a chunk and a half has been yielded as a whole chunk
\* and a shorter last one, and the body has ended
C30_Witness ==
    /\ direction = "upload"
    /\ target_bytes = CHUNK_SIZE + 1
    /\ sent = target_bytes
    /\ remaining = 0
    /\ body_done

(***************************************************************************)
(* Claims on concurrent speedtest commands (specification SpecCalls)       *)
(***************************************************************************)
\* the tasks whose run is in progress and on which abort() has not been called
RunningUnaborted == {c \in Callers : spawned[c] = "running" /\ c \notin abort_called}

\* C28: the throughput engine is single-instance: under any interleaving of
\* start_speedtest calls at most one speedtest task is running and un-aborted, and
\* every task spawned by an earlier start_speedtest has been aborted once a later
\* start_speedtest has stored its handle.
C28_SingleInstance ==
    /\ Cardinality(RunningUnaborted) <= 1
    /\ \A c \in Callers :
         (calls[c].op = "start" /\ calls[c].pc = "returned" /\ task_slot = c) =>
             \A d \in Callers \ {c} : spawned[d] = "running" => d \in abort_called

\* C29: the Canceled event stop_speedtest emits carries the direction and
\* target_bytes of the run whose task handle it aborted, under any interleaving of
\* start_speedtest and stop_speedtest calls.
C29_CanceledNamesAbortedRun ==
    \A i \in 1..Len(canceled) : canceled[i].setting = calls[canceled[i].task].setting

\* the runs whose run_speedtest has returned: the run's own speedtest:done has been
\* emitted (by the engine, or by the task for an Err)
RunReturned == {c \in Callers : spawned[c] \in {"clearing", "finished", "aborted_after_run"}}

\* the runs whose task has neither finished nor been dropped
Unfinished == {c \in Callers : spawned[c] \in {"running", "clearing"}}

\* the state part of C34: the handle in the slot of a start_speedtest that has
\* returned is the handle of an unfinished task, and an unfinished task whose
\* start_speedtest has returned and whose handle nobody took is the one in the slot
\* unless a later start_speedtest is under way
SlotMatchesTask ==
    \A c \in Callers :
        (calls[c].op = "start" /\ calls[c].pc = "returned") =>
            /\ task_slot = c => c \in Unfinished
            /\ (/\ c \in Unfinished
                /\ c \notin abort_called
                /\ \A d \in Callers \ {c} : calls[d].op = "start" => calls[d].pc = "returned")
                  => task_slot # 0

\* the step part of C34: a task that clears the slot clears its own handle only, and
\* a Canceled event is not emitted for a run whose run_speedtest has returned
ClearsOwnHandleOnly ==
    /\ \A c \in Callers :
          (spawned[c] = "clearing" /\ spawned'[c] = "finished" /\ task_slot \notin {0, c})
              => task_slot' = task_slot
    /\ Len(canceled') > Len(canceled) => canceled'[Len(canceled')].task \notin RunReturned

\* C34: the speedtest_task slot is consistent with the running task under every
\* interleaving: once start_speedtest has returned the slot holds a handle if and
\* only if that run's task has not yet finished, and it is the handle of the most
\* recently started run; a task that finishes never clears the handle of a newer run,
\* a task that finishes before its handle is stored leaves no stale handle, and
\* stop_speedtest never emits Canceled for a run that already emitted its own done.
C34_SlotConsistentWithTask == [](SlotMatchesTask) /\ [][ClearsOwnHandleOnly]_vars

\* the Canceled events stop_speedtest emitted for the run of c
CanceledFor(c) == {i \in 1..Len(canceled) : canceled[i].task = c}

\* the number of speedtest:done events of the run of c: its own and the Canceled ones
DoneCount(c) == (IF c \in RunReturned THEN 1 ELSE 0) + Cardinality(CanceledFor(c))

\* C35: every run started by start_speedtest is eventually followed by exactly one
\* speedtest:done, including a run that is aborted by a later start_speedtest and a
\* run whose token fetch or initial request fails before the transfer loop starts.
C35_EveryRunHasOneDone ==
    \A c \in Callers :
        /\ DoneCount(c) <= 1
        /\ (/\ spawned[c] \in {"finished", "aborted", "aborted_after_run"}
            /\ \A d \in Callers : calls[d].pc \in {"idle", "returned"})
              => DoneCount(c) = 1

(***************************************************************************)
(* Claims on the speedtest commands (specification SpecCmd)                *)
(***************************************************************************)
\* C12: a stop_speedtest that took the handle of a run in progress aborts the run
\* and, once it has returned, the run has exactly one speedtest:done, the one with
\* result Canceled; a stop_speedtest that finds no handle emits nothing.
C12_StopEmitsOneCanceled ==
    /\ (stop_saw = "in_progress" /\ stop_pc # "notify")
          => /\ abort_req
             /\ Cardinality(DoneEvents) = 1
             /\ \A i \in DoneEvents : st_events[i].result = "Canceled"
    /\ stop_saw = "none" => stop_emits = 0

\* C13: in a run, every speedtest:update and every speedtest:done (whatever its
\* result, Error and Canceled included) carries transferred_bytes and elapsed_ms not
\* below those of each speedtest:update emitted before it.
C13_DoneNotBelowUpdates ==
    \A i, j \in 1..Len(st_events) :
        (i < j /\ st_events[i].topic = "speedtest:update")
           => /\ st_events[j].transferred_bytes >= st_events[i].transferred_bytes
              /\ st_events[j].elapsed_ms >= st_events[i].elapsed_ms

\* the run failed inside download_test or upload_test, after its loop was entered
\* (target_bytes is set when the loop is entered)
EngineFailed == st_pc = "returned" /\ st_ret = "err" /\ target_bytes > 0

\* C14: when a run fails inside the engine (download stream error, upload
\* transport error or non-2xx response), exactly one speedtest:done with result
\* Error is emitted for the run: the one of the engine, and none by the task's shell.
C14_EngineErrorEmittedOnce ==
    EngineFailed =>
        Cardinality({i \in DoneEvents : st_events[i].result = "Error"}) = 1

(***************************************************************************)
(* Claims on the ping and traceroute commands (specification SpecProbe)    *)
(***************************************************************************)
\* the step is a call of the command for key
Called(key) == cmd_req'.n = cmd_req.n + 1 /\ cmd_req'.key = key

\* C15: on Windows a ping request with the UDP protocol returns the
\* unsupported-platform error at registration and has no side effect: the registry
\* and its tokens are unchanged, no ping:start is emitted, no task is spawned.
C15_WindowsUdpPingRejected ==
    [][(/\ Called(OP_PING)
        /\ cmd_req'.protocol = "Udp"
        /\ ~cmd_req'.lookup_failed)
          => /\ cmd_ret' = "err"
             /\ ops' = ops
             /\ cancelledTokens' = cancelledTokens
             /\ cmd_events' = cmd_events
             /\ cmd_tasks' = cmd_tasks
      ]_vars

\* C18: when the interface lookup of the ping or traceroute command fails, the
\* command emits ping:error / traceroute:error and returns an error.
C18_LookupFailureEmitsError ==
    [][\A key \in {OP_PING, OP_TRACEROUTE} :
         (Called(key) /\ cmd_req'.lookup_failed)
            => /\ cmd_ret' = "err"
               /\ Len(cmd_events') = Len(cmd_events) + 1
               /\ Last(cmd_events').topic = key \o ":error"
      ]_vars

\* the positions of the events of the given topics among the command events
CmdEventsOf(topics) == {i \in 1..Len(cmd_events) : cmd_events[i].topic \in topics}

\* the terminal events of the traceroute run r
TraceTerminalsOf(r) ==
    {i \in CmdEventsOf({"traceroute:done", "traceroute:error"}) : cmd_events[i].run_id = r}

\* the state part of C31: every traceroute:start carries a sanitized setting and is the
\* start of one spawned task; the run has no terminal event while its probe runs and
\* exactly one, after the start, once the probe returned: done with hops = max_hops of
\* the start event and reached of the probe for Ok, error for Err
OneTerminalPerTraceRun ==
    \A i \in CmdEventsOf({"traceroute:start"}) :
        LET e == cmd_events[i]
            ends == TraceTerminalsOf(e.run_id)
        IN  /\ e.setting.max_hops # 0
            /\ e.setting.tries_per_hop # 0
            /\ \E t \in cmd_tasks :
                  /\ t.run_id = e.run_id
                  /\ t.key = OP_TRACEROUTE
                  /\ t.res = "none" => ends = {}
                  /\ t.res # "none" =>
                        \E j \in ends :
                            /\ ends = {j}
                            /\ j > i
                            /\ t.res = "Ok" =>
                                  /\ cmd_events[j].topic = "traceroute:done"
                                  /\ cmd_events[j].hops = e.setting.max_hops
                                  /\ cmd_events[j].reached = t.reached
                            /\ t.res = "Err" => cmd_events[j].topic = "traceroute:error"

\* the step part of C31: a traceroute call that gets past the interface lookup emits
\* traceroute:start with 30 for a max_hops of 0 and 1 for a tries_per_hop of 0, and
\* the other values as given
StartCarriesSanitized ==
    (Called(OP_TRACEROUTE) /\ ~cmd_req'.lookup_failed) =>
        /\ Len(cmd_events') = Len(cmd_events) + 1
        /\ Last(cmd_events').topic = "traceroute:start"
        /\ Last(cmd_events').setting.max_hops =
              (IF cmd_req'.setting.max_hops = 0 THEN 30 ELSE cmd_req'.setting.max_hops)
        /\ Last(cmd_events').setting.tries_per_hop =
              (IF cmd_req'.setting.tries_per_hop = 0 THEN 1 ELSE cmd_req'.setting.tries_per_hop)

\* C31: for every traceroute run that emitted traceroute:start the spawned task emits
\* exactly one terminal event after the probe function returns: traceroute:done, with
\* hops = the sanitized max_hops and reached = the probe's result, for Ok,
\* traceroute:error for Err, never both; a max_hops or tries_per_hop of 0 is replaced
\* by 30 and 1 before the start event is emitted.
C31_TracerouteOneTerminal == [](OneTerminalPerTraceRun) /\ [][StartCarriesSanitized]_vars

\* witness of C31: a run called with max_hops = 0 and tries_per_hop = 0 has ended with
\* traceroute:done, hops = 30 and reached, and another run has ended with
\* traceroute:error
C31_Witness ==
    \E i, j, k \in 1..Len(cmd_events) :
        /\ i < j
        /\ cmd_events[i].topic = "traceroute:start"
        /\ cmd_events[i].setting = [max_hops |-> 30, tries_per_hop |-> 1]
        /\ cmd_events[j].topic = "traceroute:done"
        /\ cmd_events[j].run_id = cmd_events[i].run_id
        /\ cmd_events[j].hops = 30
        /\ cmd_events[j].reached
        /\ cmd_events[k].topic = "traceroute:error"
        /\ cmd_req.setting = [max_hops |-> 0, tries_per_hop |-> 0]

\* the spawned tasks whose probe has returned
EndedTasks == {t \in cmd_tasks : t.res # "none"}

\* the step is the end of a spawned task
TaskEnds == \E t \in cmd_tasks : t.res = "none" /\ t \notin cmd_tasks'

\* the state part of C32: the token of a job whose probe has returned is still the
\* entry of its class unless a later start_op or cancel_op of the class cancelled it,
\* and no class has two entries
EndedJobKeepsEntry ==
    /\ \A t \in EndedTasks : ~is_cancelled(t.run_id) => <<t.key, t.run_id>> \in ops
    /\ \A key \in Classes : Cardinality({e \in ops : e[1] = key}) <= 1

\* the step part of C32: the end of a task leaves the registry and its tokens as they
\* are, and a cancel_op of a class whose last job has ended uncancelled returns true
EndLeavesRegistry ==
    /\ TaskEnds => UNCHANGED <<ops, cancelledTokens, issued, lastCall, nCalls>>
    /\ \A t \in EndedTasks :
          (/\ ~is_cancelled(t.run_id)
           /\ nCalls' = nCalls + 1
           /\ lastCall'[t.key].n = nCalls'
           /\ lastCall'[t.key].op = "cancel_op")
             => /\ lastCall'[t.key].ret = TRUE
                /\ lastCall'[t.key].token = t.run_id

\* C32: a job that finishes on its own does not remove its token from the operation
\* registry: the entry stays until the next start_op or cancel_op of that class, so a
\* cancel_op of the class after the job has finished still returns true, and the
\* registry never holds more than one entry per class however many jobs have run.
C32_FinishedJobKeepsEntry == [](EndedJobKeepsEntry) /\ [][EndLeavesRegistry]_vars

\* witness of C32: two jobs of one class have run and ended; the token of the second
\* was still in the registry when cancel_op took it and returned true
C32_Witness ==
    \E t, u \in EndedTasks :
        /\ t.key = u.key
        /\ t.run_id < u.run_id
        /\ lastCall[u.key].op = "cancel_op"
        /\ lastCall[u.key].ret
        /\ lastCall[u.key].token = u.run_id
        /\ ops = {}

(***************************************************************************)
(* Claims on the neighbor scan (specification SpecNeigh)                   *)
(***************************************************************************)
NbTerminalTopics == {"neighborscan:done", "neighborscan:cancelled", "neighborscan:error"}

\* C16: in a run of neighbor_scan a terminal event (neighborscan:done, cancelled or
\* error) comes after neighborscan:start and is the last event; a run that has
\* returned has emitted exactly one, on every path (host scan succeeded or failed,
\* cancellation, failure of the neighbor-table read); a run whose token was found
\* cancelled ends with neighborscan:cancelled, never with neighborscan:done.
C16_NeighborScanOneTerminal ==
    /\ Cardinality(EventsOf(NbTerminalTopics)) <= 1
    /\ \A i \in EventsOf(NbTerminalTopics) :
          /\ i = Len(events)
          /\ events[1].topic = "neighborscan:start"
    /\ nb_pc = "returned" => Cardinality(EventsOf(NbTerminalTopics)) = 1
    /\ nb_ret = "err_cancelled" => Last(events).topic = "neighborscan:cancelled"

\* C33: during one neighbor_scan run the nested host scan emits hostscan:start exactly
\* once for the run_id, so that the number of hostscan:start events of a run equals
\* the number of its hostscan terminal events.
C33_NestedScanStartsOnce ==
    /\ Cardinality(EventsOf({"hostscan:start"})) <= 1
    /\ hs_pc \in {"resolve", "sockets", "collect", "returned"} =>
          Cardinality(EventsOf({"hostscan:start"})) = 1
    /\ nb_pc = "returned" =>
          Cardinality(EventsOf({"hostscan:start"})) = Cardinality(EventsOf(TerminalTopics))

(***************************************************************************)
(* Claims on the latency measurement (specification SpecLat)               *)
(***************************************************************************)
LatDone == {k \in 1..Len(lat_events) : lat_events[k].topic = "latency:done"}

LatUpdates == {k \in 1..Len(lat_events) : lat_events[k].topic = "latency:update"}

\* C17: a latency run with N samples emits latency:update with sample = 1, 2, ..
\* in that order, each with total = N; latency:done is emitted at most once, only
\* after all N requests succeeded, and carries exactly the N samples; a run in
\* which a request failed returns an error and emits no latency:done.
C17_LatencyUpdatesThenDone ==
    /\ \A k \in LatUpdates : /\ lat_events[k].sample = k
                              /\ lat_events[k].total = samples
                              /\ k <= samples
    /\ Cardinality(LatDone) <= 1
    /\ \A k \in LatDone :
          /\ k = samples + 1
          /\ LatUpdates = 1..samples
          /\ Len(lat_events[k].samples) = samples
          /\ \A j \in 1..samples : lat_events[k].samples[j] = lat_events[j].rtt_ms
    /\ lat_ret = "err" => LatDone = {}
    /\ lat_ret = "ok" => LatDone # {}

\* witness of C17: a run of at least two samples with different round-trip times
\* has emitted latency:done
C17_Witness ==
    /\ lat_ret = "ok"
    /\ samples >= 2
    /\ rtts[1] # rtts[2]
    /\ Last(lat_events).topic = "latency:done"
    /\ Last(lat_events).samples = rtts

(***************************************************************************)
(* Claims on the registry called from several threads (SpecThreads)        *)
(***************************************************************************)
\* the tokens start_op has returned for the class and that are not cancelled
LiveReturned(key) == {tok \in returned : issued[tok] = key /\ ~is_cancelled(tok)}

\* C19: start_op and cancel_op are atomic with respect to each other. The registry
\* can be observed only with the Mutex, so whenever the Mutex is free, every token
\* start_op has returned is in the registry or cancelled; and when every call has
\* returned, at most one of the tokens returned for a class is not cancelled.
C19_RegistryCallsAtomic ==
    /\ mutex = 0 =>
          \A tok \in returned : <<issued[tok], tok>> \notin ops => is_cancelled(tok)
    /\ (\A t \in Threads : th[t].pc = "idle") =>
          \A key \in ThreadClasses : Cardinality(LiveReturned(key)) <= 1

\* witness of C19: a start_op has removed the token of an earlier start_op and not
\* yet cancelled it, while another thread waits for the Mutex with a call on the
\* same class
C19_Witness ==
    \E t, u \in Threads :
        /\ th[t].pc = "cancel"
        /\ th[t].op = "start_op"
        /\ th[t].old \in returned
        /\ ~is_cancelled(th[t].old)
        /\ th[u].pc = "lock"
        /\ th[u].key = th[t].key

(***************************************************************************)
(* Claims on the operation registry (specification Spec)                   *)
(***************************************************************************)
Tokens == 1..Len(issued)

\* the tokens start_op(key) has returned
TokensOf(key) == {t \in Tokens : issued[t] = key}

\* C1: for every class the registry holds at most one token; the token the last
\* start_op(class) returned is live (in the registry, not cancelled) while no
\* start_op(class) or cancel_op(class) followed it; every token start_op(class)
\* returned that is no longer in the registry is cancelled, and a token still in
\* the registry is not. After start_op("ping") twice in a row the first token is
\* cancelled and the second is not.
C1_AtMostOneLiveToken ==
    /\ \A k \in Classes : Cardinality({e \in ops : e[1] = k}) <= 1
    /\ \A e \in ops : e[2] \in TokensOf(e[1])
    /\ \A k \in Classes :
        /\ lastCall[k].op = "start_op" =>
             /\ <<k, lastCall[k].token>> \in ops
             /\ ~is_cancelled(lastCall[k].token)
        /\ \A t \in TokensOf(k) :
             /\ <<k, t>> \notin ops => is_cancelled(t)
             /\ <<k, t>> \in ops => ~is_cancelled(t)
    /\ (Len(issued) >= 2 /\ issued[1] = OP_PING /\ issued[2] = OP_PING /\ nCalls = 2)
          => (is_cancelled(1) /\ ~is_cancelled(2))

\* witness of C1: start_op("ping") twice back-to-back
C1_Witness ==
    /\ nCalls = 2
    /\ issued = <<OP_PING, OP_PING>>
    /\ is_cancelled(1)
    /\ ~is_cancelled(2)
    /\ ops = {<<OP_PING, 2>>}

\* C2: cancel_op(class) returns true exactly when the registry held a token for
\* the class at the call; then that token is cancelled and the entry removed, and
\* a cancel_op(class) right after it returns false. With no entry it returns false
\* and leaves the registry and every token as they were.
C2_CancelOpContract ==
    [][\A k \in Classes :
         (nCalls' = nCalls + 1 /\ lastCall'[k].n = nCalls' /\ lastCall'[k].op = "cancel_op")
            => LET held == MapGet(ops, k) IN
                /\ lastCall'[k].ret = (held # NoToken)
                /\ MapGet(ops', k) = NoToken
                /\ (held # NoToken) =>
                      /\ held \in cancelledTokens'
                      /\ ops' = ops \ {<<k, held>>}
                      /\ cancelledTokens' = cancelledTokens \cup {held}
                /\ (held = NoToken) =>
                      /\ ops' = ops
                      /\ cancelledTokens' = cancelledTokens
                /\ (lastCall[k].op = "cancel_op") => lastCall'[k].ret = FALSE
      ]_vars

\* witness of C2: a cancel_op that returned true, followed by nothing else on the key
C2_Witness ==
    /\ lastCall[OP_PING].op = "cancel_op"
    /\ lastCall[OP_PING].ret = TRUE
    /\ lastCall[OP_PING].token \in cancelledTokens
    /\ MapGet(ops, OP_PING) = NoToken

====
